---------------------------- MODULE Spec2Model ----------------------------
(***************************************************************************)
(* Model of the diffusion-curve core of pynams (src/pynams/diffusion.py):  *)
(* params_setup1D / params_setup3D, diffusionThinSlab, diffusion1D_params, *)
(* diffusion3Dnpi_params and diffusion3Dwb_params.                         *)
(*                                                                         *)
(* Numbers.  Python floats are modelled as exact fixed-point numbers:      *)
(*   - a concentration given by the caller is an integer count of 1/V;     *)
(*   - erf, exp and cos are table approximations whose result is an        *)
(*     integer count of 1/S (the tables are kept in 1/TableUnit);          *)
(*   - every product, sum and mean after that is exact (the unit of the    *)
(*     result is the product of the units of the operands), so the         *)
(*     algebra of the code is kept and only the transcendental functions   *)
(*     are approximated;                                                   *)
(*   - NaN is the IEEE not-a-number numpy produces for 0/0; it propagates  *)
(*     through every arithmetic operation.                                 *)
(* Lengths and positions are microns, times are seconds.                   *)
(***************************************************************************)
EXTENDS Integers, Sequences, FiniteSets, TLC

\* ------------------------------------------------------------------ bounds
\* resolution of a unit profile value (erf / series result): 1/S
S == 100
\* resolution of a caller-supplied concentration: 1/V
V == 2
\* largest number of profile points (keyword points) a call is made with
MaxPoints == 3
\* largest number of series terms (keyword infinity) a call is made with
MaxTerms == 2
\* largest number of time steps of the thin-slab curve
MaxSteps == 3

\* the most function evaluations of one minimization
MaxIter == 2

\* the most objects a caller constructs and the most measurements it appends
MaxInsts == 2

MaxAppends == 2

\* the most D_saver calls a caller makes on one Profile
MaxSaves == 2

\* ------------------------------------------------------------- float model
\* numpy's nan (0./0.), as produced at diffusion.py line 181 when D*t == 0
NaN == -99999999

IsNaN(v) == v = NaN

\* float addition, subtraction and multiplication: nan propagates
FAdd(x, y) == IF IsNaN(x) \/ IsNaN(y) THEN NaN ELSE x + y

FSub(x, y) == IF IsNaN(x) \/ IsNaN(y) THEN NaN ELSE x - y

FMul(x, y) == IF IsNaN(x) \/ IsNaN(y) THEN NaN ELSE x * y

\* an optional argument: Python's None, or a value
None == [some |-> FALSE]

Some(val) == [some |-> TRUE, val |-> val]

\* expr=None of a Parameter that carries no expression
NoExpr == "None"

\* a sequence given as a function, as the tuple of its values
Strict(seq) == seq \o <<>>

\* the one element of a singleton set.  A value that is used many times is
\* bound once, as in  Only({F(x) : x \in {value}})
Only(set) == CHOOSE out \in set : TRUE

Abs(i) == IF i < 0 THEN -i ELSE i

\* floor of the square root of n >= 0, by bisection on lo <= r < hi
RECURSIVE SqrtBetween(_, _, _)
SqrtBetween(n, lo, hi) ==
    IF hi - lo <= 1 THEN lo
    ELSE LET mid == (lo + hi) \div 2
         IN  IF mid * mid <= n THEN SqrtBetween(n, mid, hi)
                               ELSE SqrtBetween(n, lo, mid)

ISqrt(n) == SqrtBetween(n, 0, 4096)

\* 10 ** k for 0 <= k
RECURSIVE Pow10(_)
Pow10(k) == IF k <= 0 THEN 1 ELSE 10 * Pow10(k - 1)

\* scipy.special.erf at z = k/4, k = 0..12, in 1/TableUnit; erf(z) = 1 beyond
ErfTable == <<0, 2763, 5205, 7112, 8427, 9229, 9661, 9867, 9953, 9985,
              9996, 9999, 10000>>

\* the tables hold function values in 1/TableUnit: the table's entry for 1
TableUnit == ErfTable[13]

\* a table value (1/TableUnit) rounded to the model's resolution 1/S
ToS(v) == (v * S + (TableUnit \div 2)) \div TableUnit

\* erf(num/den) for num >= 0, den > 0, in 1/TableUnit: linear interpolation
\* of ErfTable
ErfPos(num, den) ==
    LET k == (4 * num) \div den
    IN  IF k >= 12 THEN TableUnit
        ELSE LET lo == ErfTable[k + 1]
                 hi == ErfTable[k + 2]
             IN  lo + ((hi - lo) * (4 * num - k * den)) \div den

\* scipy.special.erf(num/den) in 1/S with numpy's division: x/0. is +-inf
\* (erf = +-1) and 0./0. is nan; erf is odd
Erf(num, den) ==
    IF den = 0
    THEN IF num = 0 THEN NaN ELSE IF num > 0 THEN S ELSE -S
    ELSE IF num >= 0 THEN ToS(ErfPos(num, den)) ELSE -ToS(ErfPos(-num, den))

\* exp(-q), q = 0..9, and exp(-k/8), k = 0..8, in 1/TableUnit
\* (each entry is the one before it times exp(-1), rounded down, which keeps
\* ExpNeg non-increasing across whole numbers)
ExpIntTable == <<10000, 3679, 1353, 497, 182, 66, 24, 8, 2, 0>>

ExpFracTable == <<10000, 8825, 7788, 6873, 6065, 5353, 4724, 4169, 3679>>

\* np.exp(-u/1000) for u >= 0, in 1/TableUnit
ExpNeg(u) ==
    IF u >= 10000 THEN 0
    ELSE LET q  == u \div 1000
             r  == u % 1000
             k  == (8 * r) \div 1000
             lo == ExpFracTable[k + 1]
             hi == ExpFracTable[k + 2]
             fr == lo - ((lo - hi) * (8 * r - 1000 * k)) \div 1000
         IN  (ExpIntTable[q + 1] * fr) \div TableUnit

\* np.exp(-D * odd**2 * pi**2 * t / twoA**2) for twoA > 0 microns, with
\* Dt = D * t in 1/1000 square microns; in 1/TableUnit.  r6 is D t / twoA**2
\* in 1/10**6; beyond 1.1 the exponent is below -10 and the result is 0
ExpDecay(odd, Dt, twoA) ==
    LET r6 == (((Dt \div twoA) * 100) \div twoA) * 10
    IN  IF r6 >= 1100000 THEN 0
        ELSE ExpNeg((((odd * odd * r6) \div 100) * 987) \div 1000)

\* cos(pi * k/16), k = 0..8, in 1/TableUnit
CosTable == <<10000, 9808, 9239, 8315, 7071, 5556, 3827, 1951, 0>>

\* cos(pi * p/q) for 0 <= 2p <= q, in 1/TableUnit
CosQuarter(p, q) ==
    LET k == (16 * p) \div q
    IN  IF k >= 8 THEN 0
        ELSE LET lo == CosTable[k + 1]
                 hi == CosTable[k + 2]
             IN  lo - ((lo - hi) * (16 * p - k * q)) \div q

\* np.cos(pi * p/q) for q > 0, in 1/TableUnit: cos is even, 2 pi periodic and
\* cos(pi - t) = -cos(t)
CosPi(p, q) ==
    LET m == Abs(p) % (2 * q)
        f == IF m > q THEN 2 * q - m ELSE m
    IN  IF 2 * f > q THEN -CosQuarter(q - f, q) ELSE CosQuarter(f, q)

\* ------------------------------------------------- thin-slab (Crank 4.18)
\* a faulty coefficient: the odd number is not squared
ThinSlabCoeff_NotSquared(n) == 8106 \div (2 * n + 1)

\* line 72: 8 / ((2n+1)**2 pi**2), in 1/TableUnit
ThinSlabCoeff(n) == 8106 \div ((2 * n + 1) * (2 * n + 1))

\* lines 69-72: the n-th term addme at D t = Dt (1/1000 square microns) of a
\* slab thickness_microns thick; exponent_bot = 4 L_meters**2 = thickness**2.
\* exponent_top is a numpy float, so a zero thickness divides to nan at
\* t = 0 and to -inf (exp = 0) afterwards
ThinSlabTerm(Dt, thickness_microns, n) ==
    IF thickness_microns = 0
    THEN IF Dt = 0 THEN NaN ELSE 0
    ELSE (ThinSlabCoeff(n) * ExpDecay(2 * n + 1, Dt, thickness_microns))
            \div TableUnit

\* lines 67-74: infsum after `infinity` terms
RECURSIVE ThinSlabSum(_, _, _)
ThinSlabSum(Dt, thickness_microns, infinity) ==
    IF infinity = 0 THEN 0
    ELSE FAdd(ThinSlabSum(Dt, thickness_microns, infinity - 1),
              ThinSlabTerm(Dt, thickness_microns, infinity - 1))

\* diffusionThinSlab(log10D_m2s, thickness_microns, max_time_hours, infinity,
\* timesteps): t_hours[j] = t_num[j] / t_den hours, cc[j] in 1/TableUnit
diffusionThinSlab(log10D_m2s, thickness_microns, max_time_hours, infinity, timesteps) ==
    LET t_den == IF timesteps = 1 THEN 1 ELSE timesteps - 1
        t_num == Strict([j \in 1..timesteps |-> max_time_hours * (j - 1)])
        Dt(j) == (Pow10(log10D_m2s + 15) * 3600 * t_num[j]) \div t_den
    IN  [kind |-> "thinslab", printed |-> <<>>, t_num |-> t_num,
         t_den |-> t_den,
         cc |-> Strict([j \in 1..timesteps |->
                    ThinSlabSum(Dt(j), thickness_microns, infinity)])]

\* --------------------------------------------------------- lmfit.Parameters
\* one lmfit Parameter as params.add(name, value, vary, min, max, expr)
\* builds it (min and max are always None in this code)
Par(value, vary, expr) == [value |-> value, vary |-> vary, expr |-> expr]

\* no ParameterSet has been built
NoParams == [kind |-> "none"]

\* params_setup1D(microns, log10D_m2s, time_seconds, init, fin, vD, vinit,
\* vfin): the five 1D parameters; microns and time_seconds never vary
params_setup1D(microns, log10D_m2s, time_seconds, init, fin, vD, vinit, vfin) ==
    [kind               |-> "1D",
     microns            |-> Par(microns, FALSE, NoExpr),
     log10D_m2s         |-> Par(log10D_m2s, vD, NoExpr),
     time_seconds       |-> Par(time_seconds, FALSE, NoExpr),
     initial_unit_value |-> Par(init, vinit, NoExpr),
     final_unit_value   |-> Par(fin, vfin, NoExpr)]

\* ------------------------------------------------------------ 1D diffusion
\* what a call returned: kind is "None" (bare return), "False", "profile"
\* (the pair x_microns, model), "residuals" or the exception raised; printed
\* are the messages written to stdout; positions are xs[i] / xden microns
Outcome(kind, printed, xs, xden, ys) ==
    [kind |-> kind, printed |-> printed, xs |-> xs, xden |-> xden, ys |-> ys]

MsgNegativeTime == "no negative time"

MsgSameLength == "x and y data must be the same length"

MsgErfOrSum ==
    "erf_or_sum must be set to either \"erf\" or \"sum\", defaulting to infinity"

\* (D * t) ** 0.5 in tenths of a micron, D = 10. ** log10D m2/s, t >= 0 s
SqrtDt(log10D, t) == ISqrt((Pow10(log10D + 15) * t) \div 10)

\* lines 180-182: erf((a + x) / (2 sqrtDt)) + erf((a - x) / (2 sqrtDt)) - 1
\* at x = xn / xden microns, a = L / 2 microns; in 1/S
ErfProfile(L, log10D, t, xn, xden) ==
    LET den == 4 * xden * SqrtDt(log10D, t)
    IN  FSub(FAdd(Erf(10 * (L * xden + 2 * xn), den),
                  Erf(10 * (L * xden - 2 * xn), den)), S)

\* lines 161-174: the n-th term xadd1 * xadd2 * xadd3 of the series at
\* x = xn / xden, for L > 0; in 1/TableUnit
SeriesTerm(L, log10D, t, xn, xden, n) ==
    LET odd   == 2 * n + 1
        xadd2 == ExpDecay(odd, Pow10(log10D + 15) * t, L)
        xadd3 == CosPi(odd * xn, xden * L)
        mag   == ((xadd2 * xadd3) \div TableUnit) \div odd
    IN  IF n % 2 = 0 THEN mag ELSE -mag

RECURSIVE SeriesSum(_, _, _, _, _, _)
SeriesSum(L, log10D, t, xn, xden, infinity) ==
    IF infinity = 0 THEN 0
    ELSE SeriesSum(L, log10D, t, xn, xden, infinity - 1)
         + SeriesTerm(L, log10D, t, xn, xden, infinity - 1)

\* line 176: model = xsum * 4. / np.pi, in 1/S
SeriesProfile(L, log10D, t, xn, xden, infinity) ==
    ToS((SeriesSum(L, log10D, t, xn, xden, infinity) * 12732) \div TableUnit)

\* lines 124-131 and 191-195 at one position: the unit profile value m (1/S),
\* inverted when going in, rescaled to the concentration range; in 1/(S*V)
Rescale(m, initial_value, final_value) ==
    LET going_out     == initial_value > final_value
        solubility    == IF going_out THEN initial_value ELSE final_value
        minimum_value == IF going_out THEN final_value ELSE initial_value
        model         == IF going_out THEN m ELSE FSub(S, m)
        concentration_range == solubility - minimum_value
    IN  FAdd(FMul(model, concentration_range), minimum_value * S)

\* lines 159-189 at one position: the unit profile by the method asked for
UnitProfile(L, log10D, t, xn, xden, erf_or_sum, infinity) ==
    IF erf_or_sum = "infsum"
    THEN SeriesProfile(L, log10D, t, xn, xden, infinity)
    ELSE ErfProfile(L, log10D, t, xn, xden)

\* a faulty order of the early exits: the method is looked at before the time
EarlyExit_MethodFirst(t, L, erf_or_sum) ==
    IF erf_or_sum \notin {"infsum", "erf"} THEN "False"
    ELSE IF t < 0 THEN "None"
    ELSE IF erf_or_sum = "infsum" /\ L = 0 THEN "ZeroDivisionError"
    ELSE "no"

\* the ways the call ends before a model exists, in the order the code meets
\* them: line 136 (t < 0: print, bare return), lines 166-167 (the series
\* divides by twoA**2 == 0.: ZeroDivisionError), lines 184-189 (neither
\* 'infsum' nor 'erf': print, return False); "no" when none applies
EarlyExit(t, L, erf_or_sum) ==
    IF t < 0 THEN "None"
    ELSE IF erf_or_sum = "infsum" /\ L = 0 THEN "ZeroDivisionError"
    ELSE IF erf_or_sum \notin {"infsum", "erf"} THEN "False"
    ELSE "no"

\* a faulty residual: data minus model
Residual_Reversed(model, data_y) == FSub(data_y * S, model)

\* lines 153-155: an observed position (microns) in the slab's frame, as a
\* count of half microns: x = data_x - a when centering is asked for
CenterX(data_x, L, need_to_center_x_data) ==
    IF need_to_center_x_data THEN 2 * data_x - L ELSE 2 * data_x

\* line 203: model - data_y_unit_areas, model in 1/(S*V) and data in 1/V
Residual(model, data_y) == FSub(model, data_y * S)

\* np.linspace(-a, a, points)[j] as a count of 1 / (2 (points - 1)) microns
GridX(L, points, j) == L * (2 * j - (points - 1))

\* diffusion1D_params(params, data_x_microns, data_y_unit_areas, erf_or_sum,
\* need_to_center_x_data, infinity, points)
diffusion1D_params(params, data_x_microns, data_y_unit_areas, erf_or_sum, need_to_center_x_data, infinity, points) ==
    LET L      == params.microns.value
        t      == params.time_seconds.value
        log10D == params.log10D_m2s.value
        initial_value == params.initial_unit_value.value
        final_value   == params.final_unit_value.value
        given   == data_x_microns.some /\ data_y_unit_areas.some
        fitting == given /\ Len(data_x_microns.val) = Len(data_y_unit_areas.val)
        printed == IF given /\ ~fitting THEN <<MsgSameLength>> ELSE <<>>
        xden == IF fitting THEN 2 ELSE 2 * (points - 1)
        xs   == IF fitting
                THEN Strict([i \in 1..Len(data_x_microns.val) |->
                        CenterX(data_x_microns.val[i], L,
                                need_to_center_x_data)])
                ELSE Strict([i \in 1..points |-> GridX(L, points, i - 1)])
        unit(xn) == UnitProfile(L, log10D, t, xn, xden, erf_or_sum, infinity)
        model == Strict([i \in 1..Len(xs) |->
                    Rescale(unit(xs[i]), initial_value, final_value)])
        exit  == EarlyExit(t, L, erf_or_sum)
    IN  IF exit = "None"
        THEN Outcome("None", <<MsgNegativeTime>>, <<>>, 0, <<>>)
        ELSE IF exit = "ZeroDivisionError"
        THEN Outcome("ZeroDivisionError", printed, <<>>, 0, <<>>)
        ELSE IF exit = "False"
        THEN Outcome("False", printed \o <<MsgErfOrSum>>, <<>>, 0, <<>>)
        ELSE IF ~fitting THEN Outcome("profile", printed, xs, xden, model)
        ELSE Outcome("residuals", printed, <<>>, 0,
                     Strict([i \in 1..Len(xs) |->
                        Residual(Rescale(unit(xs[i]), initial_value,
                                         final_value),
                                 data_y_unit_areas.val[i])]))

\* ------------------------------------------------------------ 3D diffusion
\* params_setup3D with the slowb branch tested before the isotropic one
params_setup3D_SlowbFirst(microns3, log10D3, time_seconds, initial, final, isotropic, slowb, vD, vinit, vfin) ==
    [kind               |-> "3D",
     microns3           |-> Par(microns3, FALSE, NoExpr),
     log10Dx            |-> Par(log10D3[1], vD[1], NoExpr),
     time_seconds       |-> Par(time_seconds, FALSE, NoExpr),
     initial_unit_value |-> Par(initial, vinit, NoExpr),
     final_unit_value   |-> Par(final, vfin, NoExpr),
     log10Dy            |-> Par(log10D3[2], vD[2],
                                IF slowb THEN "log10Dx - 1."
                                ELSE IF isotropic THEN "log10Dx" ELSE NoExpr),
     log10Dz            |-> Par(log10D3[3], vD[3],
                                IF isotropic \/ slowb THEN "log10Dx" ELSE NoExpr)]

\* params_setup3D(microns3, log10D3, time_seconds, initial, final, isotropic,
\* slowb, vD, vinit, vfin)
params_setup3D(microns3, log10D3, time_seconds, initial, final, isotropic, slowb, vD, vinit, vfin) ==
    [kind               |-> "3D",
     microns3           |-> Par(microns3, FALSE, NoExpr),
     log10Dx            |-> Par(log10D3[1], vD[1], NoExpr),
     time_seconds       |-> Par(time_seconds, FALSE, NoExpr),
     initial_unit_value |-> Par(initial, vinit, NoExpr),
     final_unit_value   |-> Par(final, vfin, NoExpr),
     log10Dy            |-> Par(log10D3[2], vD[2],
                                IF isotropic THEN "log10Dx"
                                ELSE IF slowb THEN "log10Dx - 1." ELSE NoExpr),
     log10Dz            |-> Par(log10D3[3], vD[3],
                                IF isotropic \/ slowb THEN "log10Dx" ELSE NoExpr)]

\* the stored value read whatever the expression
ValueOf_Stored(params, name) == params[name].value

\* params.valuesdict()[name] for a diffusivity: lmfit gives a parameter that
\* carries an expression the value of the expression
ValueOf(params, name) ==
    LET par == params[name]
    IN  IF par.expr = "log10Dx" THEN params.log10Dx.value
        ELSE IF par.expr = "log10Dx - 1." THEN params.log10Dx.value - 1
        ELSE par.value

\* np.shape(np.array(data)) of a list of three lists: (3, n) when the three
\* have one length n, (3,) for a ragged list
Shape(data) ==
    IF Len(data[1]) = Len(data[2]) /\ Len(data[2]) = Len(data[3])
    THEN <<3, Len(data[1])>> ELSE <<3>>

MsgSameShape == "x and y data must be the same shape"

MsgFitting == "fitting to data"

\* int(points / 2.), as a 1-based index
Mid(points) == (points \div 2) + 1

\* the unit of a field value: a product of three 1D values (1/(S*V) each)
\* and of scale (1/V)
FieldUnit == S * V * S * V * S * V * V

\* lines 343-351: going_out of the 3D model, decided after an initial value
\* above 1 has been set to 1: False only when that value is below the final
\* one
GoingOut3D(init, fin) ==
    LET init1 == IF init > V THEN V ELSE init
    IN  ~(init1 < fin)

\* a faulty field: the product is not multiplied by scale
Field3D_Unscaled(yprofiles, scale, going_out, minimum_value, points) ==
    LET Idx == 1..points
        product(d, e, f) ==
            FMul(FMul(FMul(yprofiles[1][d], yprofiles[2][e]), yprofiles[3][f]),
                 V)
    IN  Strict([d \in Idx |-> Strict([e \in Idx |-> Strict([f \in Idx |->
            IF going_out THEN product(d, e, f)
            ELSE FAdd(FSub(FieldUnit, product(d, e, f)),
                      minimum_value * (FieldUnit \div V))])])])

\* a faulty field: when going in, each 1D profile is inverted before the
\* product instead of the product after it
Field3D_InvertedPerAxis(yprofiles, scale, going_out, minimum_value, points) ==
    LET Idx == 1..points
        y(k, i) == IF going_out THEN yprofiles[k][i]
                   ELSE FSub(S * V, yprofiles[k][i])
    IN  Strict([d \in Idx |-> Strict([e \in Idx |-> Strict([f \in Idx |->
            FAdd(FMul(FMul(FMul(y(1, d), y(2, e)), y(3, f)), scale),
                 IF going_out THEN 0
                 ELSE minimum_value * (FieldUnit \div V))])])])

\* lines 383-393: the points**3 array v[d][e][f] of the product of the three
\* 1D profiles times scale and, when going in, one minus it plus the
\* minimum value; in 1/FieldUnit
Field3D(yprofiles, scale, going_out, minimum_value, points) ==
    LET Idx == 1..points
        product(d, e, f) ==
            FMul(FMul(FMul(yprofiles[1][d], yprofiles[2][e]), yprofiles[3][f]),
                 scale)
    IN  Strict([d \in Idx |-> Strict([e \in Idx |-> Strict([f \in Idx |->
            IF going_out THEN product(d, e, f)
            ELSE FAdd(FSub(FieldUnit, product(d, e, f)),
                      minimum_value * (FieldUnit \div V))])])])

\* faulty slices: cslice is taken along the first row, v[mid][0]
SliceProfiles_FirstRow(v, points) ==
    LET mid == Mid(points)
    IN  <<Strict([d \in 1..points |-> v[d][mid][mid]]),
          Strict([e \in 1..points |-> v[mid][e][mid]]),
          v[mid][1]>>

\* lines 395-400: aslice = v[:, mid][:, mid], bslice = v[mid][:, mid],
\* cslice = v[mid][mid]
SliceProfiles(v, points) ==
    LET mid == Mid(points)
    IN  <<Strict([d \in 1..points |-> v[d][mid][mid]]),
          Strict([e \in 1..points |-> v[mid][e][mid]]),
          v[mid][mid]>>

\* diffusion3Dnpi_params(params, data_x_microns, data_y_unit_areas,
\* erf_or_sum, centered, infinity, points); erf_or_sum and infinity are not
\* handed on to the 1D model (kwdict holds points only).  Field and slice
\* values are in 1/FieldUnit, slice positions are counts of
\* 1 / (2 (points - 1)) microns.  A 1D call that returns None (negative time)
\* makes `x, y = ...` raise TypeError
diffusion3Dnpi_params(params, data_x_microns, data_y_unit_areas, erf_or_sum, centered, infinity, points) ==
    LET given   == data_x_microns.some /\ data_y_unit_areas.some
        fitting == given /\ Shape(data_x_microns.val) = Shape(data_y_unit_areas.val)
        printed == IF ~given THEN <<>>
                   ELSE IF fitting THEN <<MsgFitting>> ELSE <<MsgSameShape>>
        L3_microns == params.microns3.value
        t       == params.time_seconds.value
        init0   == params.initial_unit_value.value
        fin0    == params.final_unit_value.value
        log10D3 == <<ValueOf(params, "log10Dx"), ValueOf(params, "log10Dy"),
                     ValueOf(params, "log10Dz")>>
        vary_D  == <<params.log10Dx.vary, params.log10Dy.vary,
                     params.log10Dz.vary>>
        scale   == IF init0 > V THEN init0 ELSE V
        init1   == IF init0 > V THEN V ELSE init0
        going_out     == GoingOut3D(init0, fin0)
        minimum_value == IF init1 > fin0 THEN fin0 ELSE init1
        init    == IF going_out THEN init1 ELSE fin0
        fin     == IF going_out THEN fin0 ELSE init1
        p1D(k)  == [kind               |-> "1D",
                    microns            |-> Par(L3_microns[k], FALSE, NoExpr),
                    time_seconds       |-> Par(t, params.time_seconds.vary, NoExpr),
                    log10D_m2s         |-> Par(log10D3[k], vary_D[k], NoExpr),
                    initial_unit_value |-> Par(init,
                        <<params.initial_unit_value.vary>>, NoExpr),
                    final_unit_value   |-> Par(fin,
                        <<params.final_unit_value.vary>>, NoExpr)]
        profiles == Strict([k \in 1..3 |->
                      diffusion1D_params(p1D(k), None, None, "erf", TRUE,
                                         100, points)])
        slice_positions_microns ==
            Strict([k \in 1..3 |-> Strict([j \in 1..points |->
                IF centered THEN GridX(L3_microns[k], points, j - 1)
                ELSE 2 * L3_microns[k] * (j - 1)])])
        finish(v) ==
            IF ~fitting
            THEN [kind |-> "npi", printed |-> printed, v |-> v,
                  sliceprofiles |-> SliceProfiles(v, points),
                  slice_positions_microns |-> slice_positions_microns,
                  xden |-> 2 * (points - 1)]
            ELSE [kind |-> "residuals", printed |-> printed,
                  ys |-> Strict([k \in 1..3 |->
                            Strict([j \in 1..points |-> 0])])]
        multiply(r1D) ==
            IF r1D[1].kind # "profile"
            THEN [kind |-> "TypeError", printed |-> printed \o r1D[1].printed]
            ELSE Only({finish(v) : v \in
                        {Field3D(<<r1D[1].ys, r1D[2].ys, r1D[3].ys>>, scale,
                                 going_out, minimum_value, points)}})
    IN  Only({multiply(r1D) : r1D \in {profiles}})

MsgRaypathsNone ==
    "raypaths must be in the form of a list of three abc directions"

MsgRaypath0 == "raypaths[0] for profile || a must be \"b\" or \"c\""

MsgRaypath1 == "raypaths[1] for profile || b must be \"a\" or \"c\""

MsgRaypath2 == "raypaths[2] for profile || c must be \"a\" or \"b\""

\* the sum of a sequence of floats (the mean's numerator)
RECURSIVE FSum(_)
FSum(seq) == IF seq = <<>> THEN 0 ELSE FAdd(seq[1], FSum(Tail(seq)))

\* a faulty plane: the mean over axis 0 with its two remaining axes swapped
MeanAxis0_Transposed(v, points) ==
    Strict([j \in 1..points |-> Strict([k \in 1..points |->
        FSum([i \in 1..points |-> v[i][k][j]])])])

\* v.mean(axis=0), v.mean(axis=1), v.mean(axis=2) of a points**3 array, as
\* the sums (the mean times points)
MeanAxis0(v, points) ==
    Strict([j \in 1..points |-> Strict([k \in 1..points |->
        FSum([i \in 1..points |-> v[i][j][k]])])])

MeanAxis1(v, points) ==
    Strict([i \in 1..points |-> Strict([k \in 1..points |->
        FSum([j \in 1..points |-> v[i][j][k]])])])

MeanAxis2(v, points) ==
    Strict([i \in 1..points |-> Strict([j \in 1..points |->
        FSum(v[i][j])])])

\* a faulty selection: the row plane[n] in place of the column
Column_Row(plane, n) == plane[n]

\* plane[:, n] of a 2D array
Column(plane, n) == Strict([i \in 1..Len(plane) |-> plane[i][n]])

\* a faulty index: argmax in place of argmin
ArgminAbs_Farthest(posnum, posden, microns) ==
    LET dist(j) == Abs(posnum[j] - microns * posden)
    IN  CHOOSE j \in 1..Len(posnum) :
          /\ \A i \in 1..Len(posnum) : dist(j) >= dist(i)
          /\ \A i \in 1..(j - 1) : dist(i) < dist(j)

\* np.abs(positions - microns).argmin() for positions[j] = posnum[j] / posden:
\* the first index of least distance (1-based)
ArgminAbs(posnum, posden, microns) ==
    LET dist(j) == Abs(posnum[j] - microns * posden)
    IN  CHOOSE j \in 1..Len(posnum) :
          /\ \A i \in 1..Len(posnum) : dist(j) <= dist(i)
          /\ \A i \in 1..(j - 1) : dist(i) > dist(j)

\* lines 570-583: the residuals of one direction k, the model being
\* wb_profiles[k] at positions posnum / posden microns; y_array[k][pos]
\* raises IndexError when y_array[k] is shorter than x_array[k]
WbResiduals(profile, posnum, posden, xk, yk, unit) ==
    IF Len(yk) < Len(xk) THEN [raised |-> TRUE, residuals |-> <<>>]
    ELSE [raised |-> FALSE,
          residuals |-> Strict([pos \in 1..Len(xk) |->
             LET microns == xk[pos]
                 idx     == ArgminAbs(posnum, posden, microns)
                 model   == profile[idx]
                 data    == yk[pos]
             IN  FSub(model, data * unit)])]

\* diffusion3Dwb_params(params, data_x_microns, data_y_unit_areas, raypaths,
\* erf_or_sum, points): plotting (show_plot, fig_ax, style) draws and returns
\* nothing, and is left out.  Whole-block values are sums over `points` field
\* values, in 1/(points * FieldUnit); positions are counts of 1/(points - 1)
\* microns
diffusion3Dwb_params(params, data_x_microns, data_y_unit_areas, raypaths, erf_or_sum, points) ==
    LET given   == data_x_microns.some /\ data_y_unit_areas.some
        fitting == given /\ Shape(data_x_microns.val) = Shape(data_y_unit_areas.val)
        printed == IF ~given THEN <<>>
                   ELSE IF fitting THEN <<MsgFitting>> ELSE <<MsgSameShape>>
        Idx     == 1..points
        mid     == Mid(points)
        L3      == params.microns3.value
        wb_positions == Strict([k \in 1..3 |->
                           Strict([j \in Idx |-> L3[k] * (j - 1)])])
        unit    == points * (FieldUnit \div V)
        residuals(wb_profiles) ==
            LET res == Strict([k \in 1..3 |->
                         WbResiduals(wb_profiles[k], wb_positions[k],
                                     points - 1, data_x_microns.val[k],
                                     data_y_unit_areas.val[k], unit)])
            IN  IF \E k \in 1..3 : res[k].raised
                THEN [kind |-> "IndexError", printed |-> printed]
                ELSE [kind |-> "residuals", printed |-> printed,
                      ys |-> res[1].residuals \o res[2].residuals
                             \o res[3].residuals]
        select(v) ==
            LET raypathA == MeanAxis0(v, points)
                raypathB == MeanAxis1(v, points)
                raypathC == MeanAxis2(v, points)
                wbA == IF raypaths.val[1] = "b" THEN Column(raypathB, mid)
                       ELSE Column(raypathC, mid)
                wbB == IF raypaths.val[2] = "a" THEN Column(raypathA, mid)
                       ELSE raypathC[mid]
                wbC == IF raypaths.val[3] = "a" THEN raypathA[mid]
                       ELSE raypathB[mid]
            IN  <<wbA, wbB, wbC>>
        finish(wb_profiles) ==
            IF ~fitting
            THEN [kind |-> "wb", printed |-> printed,
                  wb_positions |-> wb_positions, xden |-> points - 1,
                  wb_profiles |-> wb_profiles]
            ELSE residuals(wb_profiles)
        after(npi) ==
            IF npi.kind = "TypeError" THEN npi
            ELSE IF raypaths.val[1] \notin {"b", "c"}
            THEN [kind |-> "None", printed |-> printed \o <<MsgRaypath0>>]
            ELSE IF raypaths.val[2] \notin {"a", "c"}
            THEN [kind |-> "None", printed |-> printed \o <<MsgRaypath1>>]
            ELSE IF raypaths.val[3] \notin {"a", "b"}
            THEN [kind |-> "None", printed |-> printed \o <<MsgRaypath2>>]
            ELSE Only({finish(wb_profiles) : wb_profiles \in {select(npi.v)}})
    IN  IF ~raypaths.some
        THEN [kind |-> "None", printed |-> <<MsgRaypathsNone>>]
        ELSE Only({after(npi) : npi \in
                     {diffusion3Dnpi_params(params, None, None, erf_or_sum,
                                            TRUE, 100, points)}})

\* ------------------------------------------------------------ input domains
Lengths == {0, 100}

Log10Ds == {-13, -12}

Times == {-3600, 0, 3600}

\* concentrations in 1/V: 0, 1/V, 1 and 1 + 1/V
Concs == {0, 1, V, V + 1}

\* observation sets (positions in microns, values in 1/V), None when absent
ObsSets == {<<None, None>>, <<None, Some(<<V>>)>>,
            <<Some(<<25>>), Some(<<V>>)>>,
            <<Some(<<0, 100>>), Some(<<1, V>>)>>,
            <<Some(<<25>>), Some(<<1, V>>)>>}

Methods == {"erf", "infsum", "sum"}

PointsSet == 2..MaxPoints

TermsSet == 1..MaxTerms

Thicknesses == {0, 100, 200}

MaxHours == {1, 10}

StepsSet == 1..MaxSteps

Lengths3 == {<<100, 100, 100>>, <<200, 100, 0>>}

Log10D3s == {<<-12, -12, -12>>, <<-12, -13, -12>>}

\* the (isotropic, slowb) flags a caller passes
Linkages == {<<FALSE, FALSE>>, <<TRUE, FALSE>>, <<FALSE, TRUE>>}

\* both flags set is a call the signature allows as well
AllLinkages == Linkages \cup {<<TRUE, TRUE>>}

\* the vD lists a caller passes
VaryFlags == {<<TRUE, TRUE, TRUE>>, <<TRUE, FALSE, TRUE>>, <<FALSE, TRUE, FALSE>>, <<FALSE, FALSE, FALSE>>}

\* the argument lists of params_setup3D: every block, time and pair of
\* values with the default vD, one block with every linkage and vD, one
\* that falls from 2 to a final value above 1, and one so slow that the erf
\* profiles stay within [0, 1] (erf(26) is 1.0)
Setups3D ==
    [microns3 : Lengths3, log10D3 : Log10D3s, time_seconds : Times,
     initial : Concs, final : Concs, link : Linkages,
     vD : {<<TRUE, TRUE, TRUE>>}]
    \cup
    [microns3 : {<<100, 100, 100>>}, log10D3 : Log10D3s,
     time_seconds : {3600}, initial : {V}, final : {0}, link : AllLinkages,
     vD : VaryFlags]
    \cup
    [microns3 : {<<100, 100, 100>>}, log10D3 : Log10D3s,
     time_seconds : {3600}, initial : {2 * V}, final : {V + 1},
     link : {<<FALSE, FALSE>>}, vD : {<<TRUE, TRUE, TRUE>>}]
    \cup
    [microns3 : {<<100, 100, 100>>}, log10D3 : {<<-15, -15, -15>>},
     time_seconds : {3600}, initial : Concs, final : Concs,
     link : {<<FALSE, FALSE>>}, vD : {<<TRUE, TRUE, TRUE>>}]

Letters == {"a", "b", "c"}

RaypathSets ==
    {None} \cup {Some(<<ra, rb, rc>>) :
                    ra \in Letters, rb \in Letters, rc \in Letters}

\* 3D observation sets: three lists of positions (microns) and of values (1/V)
ObsSets3 ==
    {<<None, None>>,
     <<Some(<< <<0>>, <<60>>, <<100>> >>), Some(<< <<V>>, <<1>>, <<0>> >>)>>,
     <<Some(<< <<0, 40>>, <<>>, <<100>> >>), Some(<< <<V, V>>, <<>>, <<1>> >>)>>,
     <<Some(<< <<0, 40>>, <<>>, <<100>> >>), Some(<< <<V>>, <<>>, <<1>> >>)>>,
     <<Some(<< <<0>>, <<60>>, <<100>> >>),
       Some(<< <<V, 1>>, <<1, 1>>, <<0, 0>> >>)>>}

\* diffusion3Dwb(lengths_microns, log10Ds_m2s, time_seconds, raypaths, ...):
\* the ParameterSet is built with the default initial and final values and
\* returned at once; the evaluation and the plot after the return statement
\* are never reached
diffusion3Dwb(lengths_microns, log10Ds_m2s, time_seconds, raypaths, points, show_plot) ==
    [kind |-> "params", printed |-> <<>>,
     params |-> params_setup3D(lengths_microns, log10Ds_m2s, time_seconds, V,
                               0, FALSE, FALSE, <<TRUE, TRUE, TRUE>>, FALSE,
                               FALSE)]

\* a model evaluation that writes the unit values it works with back into
\* the ParameterSet
AfterEvaluation_Normalized(params) ==
    [params EXCEPT !.initial_unit_value.value = V,
                   !.final_unit_value.value = 0]

\* the ParameterSet a model evaluation leaves behind: diffusion1D_params,
\* diffusion3Dnpi_params and diffusion3Dwb_params read it through
\* params.valuesdict() and params[name].vary, build a new ParameterSet for
\* each 1D evaluation and assign to local names only, on every path
AfterEvaluation(params) == params

\* ------------------------------------------------------------------ fitting
\* the data of a profile that is fitted: positions (microns), values (1/V)
FitObs == {<< <<25>>, <<V>> >>, << <<0, 100>>, <<1, V>> >>}

\* the data of the three profiles of a block that is fitted
FitObs3 == {<< << <<0>>, <<60>>, <<100>> >>, << <<V>>, <<1>>, <<0>> >> >>}

\* the ray paths of the three profiles of a block that is fitted
FitRaypaths == {<<"c", "c", "b">>}

\* self.time_seconds of a profile or block: None until it is set
ProfileTimes == {None} \cup {Some(t) : t \in Times}

\* wb_or_3Dnpi of WholeBlock.fitD
FitModes == {"wb", "npi", "3D"}

MsgNeedTime == "Need to set profile time_seconds attribute"

MsgWbOrNpi == "wb_or_3Dnpi can only be wb or npi"

MsgNpiNotSupported == "NPI not supported yet"

\* the residual function as lmfit.minimize calls it, fcn(params, *args,
\* **kws): diffusion1D_params(params, x, y) with its defaults, or
\* diffusion3Dwb_params(params, x, y, points, raypaths, show_plot=False)
Fcn(p, c) ==
    IF p.kind = "1D"
    THEN diffusion1D_params(p, Some(c.data_x), Some(c.data_y), "erf", TRUE, 100, c.points)
    ELSE diffusion3Dwb_params(p, Some(c.data_x), Some(c.data_y), Some(c.raypaths), "erf", c.points)

\* the values the optimizer may try for one diffusivity: it moves only a
\* parameter that varies and carries no expression
Trial(par) ==
    IF par.vary /\ par.expr = NoExpr
    THEN {[par EXCEPT !.value = v] : v \in Log10Ds} ELSE {par}

\* the ParameterSets one optimizer step may leave in place of p
TrialParams(p) ==
    IF p.kind = "1D"
    THEN {[p EXCEPT !.log10D_m2s = d] : d \in Trial(p.log10D_m2s)}
    ELSE {[p EXCEPT !.log10Dx = dx, !.log10Dy = dy, !.log10Dz = dz] :
             dx \in Trial(p.log10Dx), dy \in Trial(p.log10Dy),
             dz \in Trial(p.log10Dz)}

\* x[k] = x[k] - self.lengths[k]/2. for the three profiles
ShiftedByHalf(x, lengths) ==
    [k \in 1..3 |-> [i \in 1..Len(x[k]) |-> x[k][i] - (lengths[k] \div 2)]]

\* ufloat(value, stderr).n and .s for each fitted diffusivity; stderr is
\* None when the optimizer estimated no error bars
Saved(owner, values, errorbars) ==
    [kind |-> owner, D_area_wb |-> values,
     D_area_wb_error |-> IF errorbars THEN Some("stderr") ELSE None]

\* ------------------------------------------------ the diffusivities a Profile holds
MsgNeedD == "\nNeed to set profile bulk or peak diffusivity"

\* pynams.py lines 863-878 and 1175-1184: the diffusivities and errors of a
\* Profile whose get_peakfit found one peak; 0 stands for none set
NewProfile ==
    [kind |-> "profile",
     D_area |-> 0, D_area_error |-> 0, D_area_wb |-> 0, D_area_wb_error |-> 0,
     D_peakarea |-> <<0>>, D_peakarea_error |-> <<0>>,
     D_peakarea_wb |-> <<0>>, D_peakarea_wb_error |-> <<0>>,
     D_height |-> <<0>>, D_height_error |-> <<0>>,
     D_height_wb |-> <<0>>, D_height_wb_error |-> <<0>>]

\* the selectors (wholeblock, heights_instead, peak_idx) of a diffusivity;
\* peak_idx is None for the bulk value or the 0-based index of the peak
Selectors ==
    [wholeblock : BOOLEAN, heights_instead : BOOLEAN,
     peak_idx : {None, Some(0)}]

\* the values D_saver is given, log10 m2/s, and the error
SavedDs == {0, -12, -13}

SavedErrors == {1}

\* Profile.D_saver(self, D, error, wholeblock, heights_instead, peak_idx):
\* the Profile afterwards
D_saver(self, D, error, wholeblock, heights_instead, peak_idx) ==
    LET i == peak_idx.val + 1
    IN  IF peak_idx.some
        THEN IF heights_instead
             THEN IF ~wholeblock
                  THEN [self EXCEPT !.D_height[i] = D,
                                    !.D_height_error[i] = error]
                  ELSE [self EXCEPT !.D_height_wb[i] = D,
                                    !.D_height_wb_error[i] = error]
             ELSE IF ~wholeblock
                  THEN [self EXCEPT !.D_peakarea[i] = D,
                                    !.D_peakarea_error[i] = error]
                  ELSE [self EXCEPT !.D_peakarea_wb[i] = D,
                                    !.D_peakarea_wb_error[i] = error]
        ELSE IF ~wholeblock
        THEN [self EXCEPT !.D_area = D, !.D_area_error = error]
        ELSE [self EXCEPT !.D_area_wb = D, !.D_area_wb_error = error]

\* Profile.D_picker(self, wholeblock, heights_instead, peak_idx): what it
\* returns and prints
D_picker(self, wholeblock, heights_instead, peak_idx) ==
    LET i == peak_idx.val + 1
        log10D_m2s ==
            IF peak_idx.some
            THEN IF heights_instead
                 THEN IF ~wholeblock /\ self.D_height[i] # 0
                      THEN Some(self.D_height[i])
                      ELSE IF wholeblock /\ self.D_height_wb[i] # 0
                      THEN Some(self.D_height_wb[i])
                      ELSE None
                 ELSE IF ~wholeblock /\ self.D_peakarea[i] # 0
                      THEN Some(self.D_peakarea[i])
                      ELSE IF wholeblock /\ self.D_peakarea_wb[i] # 0
                      THEN Some(self.D_peakarea_wb[i])
                      ELSE None
            ELSE IF ~wholeblock /\ self.D_area # 0
            THEN Some(self.D_area)
            ELSE IF self.D_area_wb # 0
            THEN Some(self.D_area_wb)
            ELSE None
    IN  IF ~log10D_m2s.some
        THEN [kind |-> "None", printed |-> <<MsgNeedD>>]
        ELSE [kind |-> "log10D_m2s", printed |-> <<>>,
              value |-> log10D_m2s.val]

\* the calls made on a Profile
ProfileFns == {"Profile.D_saver", "Profile.D_picker"}

\* ---------------------------------------------------------------- Arrhenius
\* GAS_CONSTANT = 0.00831 kJ/mol K, in 1/100000
GAS_CONSTANT == 831

MsgOnePoint == "Warning: fitting to only one point"

MsgPicker == "Problem with self.picker_DCelsius()"

MsgOnlyOnePoint == "Only one point for orientation"

\* x = 1.E4 / (celsius + 273.15), in 1/100
InvT(celsius) == 100000000 \div (100 * celsius + 27315)

\* the integers of a sequence added up
RECURSIVE SumSeq(_)
SumSeq(seq) == IF seq = <<>> THEN 0 ELSE seq[1] + SumSeq(Tail(seq))

\* np.polyfit(x, y, 1) of the points (the extra point has weight epsilon and
\* does not move the line): slope = 100 * num / den per unit of 1.E4/T and
\* intercept in 1/100. For identical temperatures the least-squares problem
\* is rank deficient and the minimum-norm solution of the scaled problem is
\* slope = mean(y) / (2 x), intercept = mean(y) / 2
LineFit(xs, ys) ==
    LET n == Len(xs)
        Sx == SumSeq(xs)
        Sy == SumSeq(ys)
        Sxy == SumSeq([i \in 1..n |-> xs[i] * ys[i]])
        Sxx == SumSeq([i \in 1..n |-> xs[i] * xs[i]])
        num == n * Sxy - Sx * Sy
        den == n * Sxx - Sx * Sx
    IN  IF den # 0
        THEN [num |-> num, den |-> den,
              intercept |-> (100 * (Sy * den - num * Sx)) \div (n * den)]
        ELSE [num |-> Sy, den |-> 2 * n * xs[1],
              intercept |-> (100 * Sy) \div (2 * n)]

\* the result of a regression: Ea = -slope * 2.303 * GAS_CONSTANT * 1.E4 in
\* kJ/mol and log10 of D0 = 10.**intercept in 1/100 (the error estimates of
\* the two ufloats are not modelled)
EaD0(fit) ==
    [kind |-> "Ea, D0", printed |-> <<>>,
     Ea |-> (-(fit.num * ((2303 * GAS_CONSTANT) \div 100))) \div fit.den,
     log10D0 |-> fit.intercept]

\* solve_Ea_D0 that refuses only an empty list
solve_Ea_D0_NoGuard(log10D_list, celsius_list) ==
    IF Len(celsius_list) < 1 \/ Len(log10D_list) < 1
    THEN [kind |-> "None, None", printed |-> <<MsgOnePoint>>]
    ELSE IF Len(celsius_list) # Len(log10D_list) THEN [kind |-> "TypeError", printed |-> <<>>]
    ELSE EaD0(LineFit([i \in 1..Len(celsius_list) |-> InvT(celsius_list[i])], log10D_list))

\* solve_Ea_D0(log10D_list, celsius_list): np.polyfit raises TypeError for
\* lists of different lengths
solve_Ea_D0(log10D_list, celsius_list) ==
    IF Len(celsius_list) < 2 \/ Len(log10D_list) < 2
    THEN [kind |-> "None, None", printed |-> <<MsgOnePoint>>]
    ELSE IF Len(celsius_list) # Len(log10D_list) THEN [kind |-> "TypeError", printed |-> <<>>]
    ELSE EaD0(LineFit([i \in 1..Len(celsius_list) |-> InvT(celsius_list[i])], log10D_list))

\* get_iorient(orient): the index of 'x', 'y', 'z', 'u' (from 1 here); any
\* other string is passed on as it is and indexes no list, 0 here
get_iorient(orient) ==
    CASE orient = "x" -> 1 [] orient = "y" -> 2 [] orient = "z" -> 3
      [] orient = "u" -> 4 [] OTHER -> 0

\* Diffusivities.solve_Ea_D0(self, orient) on the instance inst of the heap h
Diffusivities_solve_Ea_D0(h, inst, orient) ==
    LET iorient == get_iorient(orient)
    IN  IF iorient \notin 1..4
        THEN [kind |-> "None", printed |-> <<MsgPicker>>]
        ELSE LET logD == h.lists[inst.logD[iorient]]
                 celsius == h.lists[inst.celsius[iorient]]
             IN  IF Len(logD) < 2 \/ Len(celsius) < 2
                 THEN [kind |-> "None", printed |-> <<MsgOnlyOnePoint>>]
                 ELSE solve_Ea_D0(logD, celsius)

MsgProblemSolve == "Problem with self.solve_Ea_D0()"

\* whatIsD(Ea, D0, celsius): np.log10(D0 * np.exp(-Ea / (GAS_CONSTANT * T)))
\* in 1/100, for Ea in kJ/mol and log10 of D0 in 1/100; 1 / (GAS_CONSTANT *
\* T * ln 10) is InvT(celsius) / (2.303 * GAS_CONSTANT * 1.E4)
whatIsD(Ea, log10D0, celsius) ==
    log10D0 - (Ea * InvT(celsius) * 100) \div ((2303 * GAS_CONSTANT) \div 100)

\* Diffusivities.whatIsD(self, celsius, orient) on the instance inst of the
\* heap h; the list D holds None or a value for each entry appended
Diffusivities_whatIsD(h, inst, celsius, orient) ==
    LET solved(direction) == Diffusivities_solve_Ea_D0(h, inst, direction)
        entry(idx, direction) ==
            IF Len(h.lists[inst.logD[idx]]) > 0
            THEN IF solved(direction).kind # "None"
                 THEN <<Some(whatIsD(solved(direction).Ea,
                                     solved(direction).log10D0, celsius))>>
                 ELSE <<>>
            ELSE <<None>>
        raises(idx, direction) ==
            /\ Len(h.lists[inst.logD[idx]]) > 0
            /\ solved(direction).kind = "TypeError"
        directions == <<"x", "y", "z", "u">>
    IN  IF orient = "ALL"
        THEN IF \E idx \in 1..4 : raises(idx, directions[idx])
             THEN [kind |-> "TypeError", printed |-> <<>>]
             ELSE [kind |-> "D", printed |-> <<>>,
                   D |-> entry(1, "x") \o entry(2, "y") \o entry(3, "z")
                         \o entry(4, "u")]
        ELSE IF solved(orient).kind = "None"
        THEN [kind |-> "None",
              printed |-> solved(orient).printed \o <<MsgProblemSolve>>]
        ELSE IF solved(orient).kind = "TypeError"
        THEN [kind |-> "TypeError", printed |-> <<>>]
        ELSE [kind |-> "log10D", printed |-> <<>>,
              value |-> whatIsD(solved(orient).Ea, solved(orient).log10D0,
                                celsius)]

\* the lists of diffusivities and temperatures a caller passes
Log10DLists == {<<>>, <<-13>>, <<-13, -12>>, <<-14, -13, -12>>}

CelsiusLists == {<<>>, <<800>>, <<800, 1000>>, <<800, 900, 1000>>, <<800, 800>>}

\* ------------------------------------------------------------------ objects
\* the list objects that exist before any instance does, by identity: the
\* eight default arguments celsius_x, celsius_y, celsius_z, celsius_u, logDx,
\* logDy, logDz, logDu of Diffusivities.__init__, made once when the def
\* statement runs, and the class attribute Profile.fname_list (identity 9)
NoInstances == [lists |-> [i \in 1..9 |-> <<>>], insts |-> <<>>, appends |-> 0]

\* the n-th measurement a caller adds: celsius and log10 D
Measurements == << <<800, -13>>, <<1000, -12>>, <<900, -12>> >>

\* the ways a caller constructs an object
Constructions == {"Diffusivities()", "Diffusivities(celsius_all, logD_all)", "Profile()"}

\* Diffusivities.__init__ and the class body of Profile: the instance made
\* by the construction how, with the list objects its attributes refer to;
\* a list the caller passes is a new object, identities n + 1 and n + 2
NewInstance(how, n) ==
    CASE how = "Diffusivities()" ->
           [cls |-> "Diffusivities", defaults |-> TRUE,
            celsius |-> <<1, 2, 3, 4>>, logD |-> <<5, 6, 7, 8>>]
      [] how = "Diffusivities(celsius_all, logD_all)" ->
           [cls |-> "Diffusivities", defaults |-> FALSE,
            celsius |-> <<n + 1, n + 1, n + 1, n + 1>>,
            logD |-> <<n + 2, n + 2, n + 2, n + 2>>]
      [] OTHER ->
           [cls |-> "Profile", defaults |-> TRUE, fname_list |-> 9]

\* the list objects after a.append(v) on the object a
AppendTo(lists, a, v) == [lists EXCEPT ![a] = Append(@, v)]

\* the calls that leave objects for the caller to go on with
HeapFns == {"Diffusivities", "Profile", "list.append"}

\* --------------------------------------------------------------- the state
\* the attributes a fit has saved on a profile: nothing yet
NothingStored == [kind |-> "none"]

VARIABLES params, call, ret, setup, stored, heap

vars == <<params, call, ret, setup, stored, heap>>

NoCall == [fn |-> "none"]

NotReturned == [kind |-> "pending"]

\* no builder has been called
NoSetup == [fn |-> "none"]

Init ==
    /\ params = NoParams /\ call = NoCall /\ ret = NotReturned
    /\ setup = NoSetup /\ stored = NothingStored /\ heap = NoInstances

\* a caller builds the 1D ParameterSet
Setup1D ==
    /\ params.kind = "none" /\ call.fn = "none"
    /\ \E L \in Lengths, log10D \in Log10Ds, t \in Times,
          init \in Concs, fin \in Concs, vD \in BOOLEAN :
          /\ params' = params_setup1D(L, log10D, t, init, fin, vD, FALSE, FALSE)
          /\ setup' = [fn |-> "params_setup1D", vD |-> vD]
    /\ UNCHANGED <<call, ret, stored, heap>>

\* a caller evaluates the 1D model
Call1D ==
    /\ params.kind = "1D" /\ call.fn = "none"
    /\ \E obs \in ObsSets, erf_or_sum \in Methods, center \in BOOLEAN,
          infinity \in TermsSet, points \in PointsSet :
          /\ call' = [fn |-> "diffusion1D_params", data_x |-> obs[1],
                      data_y |-> obs[2], erf_or_sum |-> erf_or_sum,
                      center |-> center, infinity |-> infinity,
                      points |-> points]
          /\ ret' = diffusion1D_params(params, obs[1], obs[2], erf_or_sum,
                                       center, infinity, points)
    /\ params' = AfterEvaluation(params)
    /\ UNCHANGED <<setup, stored, heap>>

\* a caller computes the thin-slab curve (no ParameterSet is involved)
CallThinSlab ==
    /\ params.kind = "none" /\ call.fn = "none"
    /\ \E log10D \in Log10Ds, thickness \in Thicknesses, hours \in MaxHours,
          infinity \in TermsSet, timesteps \in StepsSet :
          /\ call' = [fn |-> "diffusionThinSlab", log10D_m2s |-> log10D,
                      thickness_microns |-> thickness,
                      max_time_hours |-> hours, infinity |-> infinity,
                      timesteps |-> timesteps]
          /\ ret' = diffusionThinSlab(log10D, thickness, hours, infinity,
                                      timesteps)
    /\ UNCHANGED <<params, setup, stored, heap>>

\* a caller builds the 3D ParameterSet
Setup3D ==
    /\ params.kind = "none" /\ call.fn = "none"
    /\ \E a \in Setups3D :
          /\ params' = params_setup3D(a.microns3, a.log10D3, a.time_seconds,
                                      a.initial, a.final, a.link[1],
                                      a.link[2], a.vD, FALSE, FALSE)
          /\ setup' = [fn |-> "params_setup3D", log10D3 |-> a.log10D3,
                       isotropic |-> a.link[1], slowb |-> a.link[2],
                       vD |-> a.vD]
    /\ UNCHANGED <<call, ret, stored, heap>>

\* a caller evaluates the 3D model without path integration
Call3Dnpi ==
    /\ params.kind = "3D" /\ call.fn = "none"
    /\ \E obs \in ObsSets3, centered \in BOOLEAN, points \in PointsSet :
          /\ call' = [fn |-> "diffusion3Dnpi_params", data_x |-> obs[1],
                      data_y |-> obs[2], centered |-> centered,
                      points |-> points]
          /\ ret' = diffusion3Dnpi_params(params, obs[1], obs[2], "erf",
                                          centered, 100, points)
    /\ params' = AfterEvaluation(params)
    /\ UNCHANGED <<setup, stored, heap>>

\* a caller evaluates the whole-block model
Call3Dwb ==
    /\ params.kind = "3D" /\ call.fn = "none"
    /\ \E obs \in ObsSets3, raypaths \in RaypathSets, points \in PointsSet :
          /\ call' = [fn |-> "diffusion3Dwb_params", data_x |-> obs[1],
                      data_y |-> obs[2], raypaths |-> raypaths,
                      points |-> points]
          /\ ret' = diffusion3Dwb_params(params, obs[1], obs[2], raypaths,
                                         "erf", points)
    /\ params' = AfterEvaluation(params)
    /\ UNCHANGED <<setup, stored, heap>>

\* a caller minimizes the whole-block residuals over a 3D ParameterSet:
\* lmfit.minimize(diffusion3Dwb_params, params, args=(x, y), kws=...)
Minimize_Begin ==
    /\ params.kind = "3D" /\ call.fn = "none"
    /\ params.initial_unit_value.value = V
    /\ params.final_unit_value.value = 0
    /\ \E obs \in FitObs3, raypaths \in FitRaypaths, points \in PointsSet :
          call' = [fn |-> "lmfit.minimize", stage |-> "minimize",
                   data_x |-> obs[1], data_y |-> obs[2],
                   raypaths |-> raypaths, points |-> points, nfev |-> 0]
    /\ ret' = NotReturned
    /\ UNCHANGED <<params, setup, stored, heap>>

\* one function evaluation of a running minimization (the caller's, or the
\* one inside Profile.fitDiffusivity or WholeBlock.fitD): the optimizer puts
\* trial values in place and calls the residual function; a result that is
\* not an array of residuals makes lmfit raise
Minimize_Step ==
    /\ call.fn \in {"lmfit.minimize", "Profile.fitDiffusivity", "WholeBlock.fitD"}
    /\ call.stage = "minimize" /\ call.nfev < MaxIter
    /\ \E trial \in TrialParams(params) :
          LET r == Only({Fcn(p, call) : p \in {trial}})
          IN  /\ params' = AfterEvaluation(trial)
              /\ ret' = r
              /\ call' = [call EXCEPT !.nfev = @ + 1,
                                      !.stage = IF r.kind = "residuals"
                                                THEN "minimize" ELSE "raised"]
    /\ UNCHANGED <<setup, stored, heap>>

\* the caller's minimization returns its result object
Minimize_End ==
    /\ call.fn = "lmfit.minimize"
    /\ call.stage = "minimize" /\ call.nfev >= 1
    /\ \E success \in BOOLEAN, errorbars \in BOOLEAN :
          ret' = [kind |-> "MinimizerResult", success |-> success,
                  errorbars |-> errorbars]
    /\ call' = [call EXCEPT !.stage = "returned"]
    /\ UNCHANGED <<params, setup, stored, heap>>

\* Profile.fitDiffusivity up to the first function evaluation: the early
\* returns, the ParameterSet it builds and the call of lmfit.minimize
fitDiffusivity_Begin ==
    /\ params.kind = "none" /\ call.fn = "none"
    /\ \E time_seconds \in ProfileTimes, L \in Lengths, guess \in Log10Ds,
          varyD \in BOOLEAN, obs \in FitObs :
          IF ~time_seconds.some
          THEN /\ call' = [fn |-> "Profile.fitDiffusivity", stage |-> "returned"]
               /\ ret' = [kind |-> "None", printed |-> <<MsgNeedTime>>]
               /\ UNCHANGED <<params, setup>>
          ELSE /\ params' = params_setup1D(L, guess, time_seconds.val, V, 0,
                                           varyD, FALSE, FALSE)
               /\ setup' = [fn |-> "params_setup1D", vD |-> varyD]
               /\ call' = [fn |-> "Profile.fitDiffusivity",
                           stage |-> "minimize", data_x |-> obs[1],
                           data_y |-> obs[2], points |-> 100, nfev |-> 0]
               /\ ret' = NotReturned
    /\ UNCHANGED <<stored, heap>>

\* Profile.fitDiffusivity after lmfit.minimize: the result object is dropped,
\* the values and errors are read from params, saved as attributes of the
\* profile and returned. ufloat(value, None) either raises or gives a number
\* without an error, by the version of the uncertainties package
fitDiffusivity_Finish ==
    /\ call.fn = "Profile.fitDiffusivity"
    /\ call.stage = "minimize" /\ call.nfev >= 1
    /\ \E success \in BOOLEAN, errorbars \in BOOLEAN, raises \in BOOLEAN :
          /\ raises => ~errorbars
          /\ call' = [call EXCEPT !.stage = "returned"] @@
                     [success |-> success, errorbars |-> errorbars]
          /\ IF raises
             THEN ret' = [kind |-> "TypeError"] /\ UNCHANGED stored
             ELSE /\ stored' = Saved("Profile", <<params.log10D_m2s.value>>, errorbars)
                  /\ ret' = [kind |-> "best_D",
                             n |-> <<params.log10D_m2s.value>>,
                             s |-> IF errorbars THEN Some("stderr") ELSE None]
    /\ UNCHANGED <<params, setup, heap>>

\* WholeBlock.fitD up to the first function evaluation: the early returns,
\* the shifted positions, the ParameterSet it builds (never linked) and the
\* call of lmfit.minimize
fitD_Begin ==
    /\ params.kind = "none" /\ call.fn = "none"
    /\ \E wb_or_3Dnpi \in FitModes, t \in Times, guesses \in Log10D3s,
          vD \in VaryFlags, obs \in FitObs3, raypaths \in FitRaypaths,
          points \in PointsSet :
          IF wb_or_3Dnpi # "wb"
          THEN /\ call' = [fn |-> "WholeBlock.fitD", stage |-> "returned"]
               /\ ret' = [kind |-> "None",
                          printed |-> IF wb_or_3Dnpi = "npi"
                                      THEN <<MsgNpiNotSupported>>
                                      ELSE <<MsgWbOrNpi>>]
               /\ UNCHANGED <<params, setup>>
          ELSE /\ params' = params_setup3D(<<100, 100, 100>>, guesses, t, V, 0,
                                           FALSE, FALSE, vD, FALSE, FALSE)
               /\ setup' = [fn |-> "params_setup3D", log10D3 |-> guesses,
                            isotropic |-> FALSE, slowb |-> FALSE, vD |-> vD]
               /\ call' = [fn |-> "WholeBlock.fitD", stage |-> "minimize",
                           positions |-> obs[1],
                           data_x |-> ShiftedByHalf(obs[1], <<100, 100, 100>>),
                           data_y |-> obs[2], raypaths |-> raypaths,
                           points |-> points, nfev |-> 0]
               /\ ret' = NotReturned
    /\ UNCHANGED <<stored, heap>>

\* WholeBlock.fitD after lmfit.minimize: the result object is dropped, the
\* three values and errors are read from params, saved on the three profiles
\* by D_saver and returned
fitD_Finish ==
    /\ call.fn = "WholeBlock.fitD"
    /\ call.stage = "minimize" /\ call.nfev >= 1
    /\ \E success \in BOOLEAN, errorbars \in BOOLEAN, raises \in BOOLEAN :
          /\ raises => ~errorbars
          /\ call' = [call EXCEPT !.stage = "returned"] @@
                     [success |-> success, errorbars |-> errorbars]
          /\ LET D3 == <<params.log10Dx.value, params.log10Dy.value,
                         params.log10Dz.value>>
             IN  IF raises
                 THEN ret' = [kind |-> "TypeError"] /\ UNCHANGED stored
                 ELSE /\ stored' = Saved("WholeBlock", D3, errorbars)
                      /\ ret' = [kind |-> "bestD", n |-> D3,
                                 s |-> IF errorbars THEN Some("stderr")
                                       ELSE None]
    /\ UNCHANGED <<params, setup, heap>>

\* a caller asks the wrapper for whole-block profiles
Call_diffusion3Dwb ==
    /\ params.kind = "none" /\ call.fn = "none"
    /\ \E lengths \in Lengths3, log10Ds \in Log10D3s, t \in Times,
          raypaths \in FitRaypaths \cup {<<"a", "a", "a">>},
          points \in PointsSet, show_plot \in BOOLEAN :
          /\ call' = [fn |-> "diffusion3Dwb", lengths_microns |-> lengths,
                      log10Ds_m2s |-> log10Ds, time_seconds |-> t,
                      raypaths |-> raypaths, points |-> points,
                      show_plot |-> show_plot]
          /\ ret' = diffusion3Dwb(lengths, log10Ds, t, raypaths, points,
                                  show_plot)
    /\ UNCHANGED <<params, setup, stored, heap>>

\* a caller runs the regression on two lists
Call_solve_Ea_D0 ==
    /\ params.kind = "none" /\ call.fn = "none"
    /\ \E log10D_list \in Log10DLists, celsius_list \in CelsiusLists :
          /\ call' = [fn |-> "solve_Ea_D0", log10D_list |-> log10D_list,
                      celsius_list |-> celsius_list]
          /\ ret' = solve_Ea_D0(log10D_list, celsius_list)
    /\ UNCHANGED <<params, setup, stored, heap>>

\* a caller constructs a Diffusivities or a Profile
Construct ==
    /\ params.kind = "none" /\ call.fn \in {"none"} \cup HeapFns
    /\ Len(heap.insts) < MaxInsts
    /\ \E how \in Constructions :
          LET n == Len(heap.lists)
              inst == NewInstance(how, n)
          IN  /\ heap' = [heap EXCEPT
                     !.insts = Append(@, inst),
                     !.lists = IF how = "Diffusivities(celsius_all, logD_all)"
                               THEN @ \o << <<800, 1000>>, <<-13, -12>> >>
                               ELSE @]
              /\ call' = [fn |-> inst.cls, inst |-> Len(heap.insts) + 1]
    /\ ret' = NotReturned
    /\ UNCHANGED <<params, setup, stored>>

\* a caller adds a measurement to one orientation of a Diffusivities,
\* d.celsius[k].append(T); d.logD[k].append(D), or a file name to a Profile,
\* p.fname_list.append(name)
AppendMeasurement ==
    /\ call.fn \in HeapFns /\ heap.appends < MaxAppends
    /\ \E i \in 1..Len(heap.insts), k \in {1, 4} :
          LET inst == heap.insts[i]
              m == Measurements[heap.appends + 1]
          IN  /\ heap' = [heap EXCEPT
                     !.appends = @ + 1,
                     !.lists = IF inst.cls = "Profile"
                               THEN AppendTo(@, inst.fname_list, "fname")
                               ELSE AppendTo(AppendTo(@, inst.celsius[k], m[1]),
                                             inst.logD[k], m[2])]
              /\ call' = [fn |-> "list.append", inst |-> i,
                          orient |-> IF inst.cls = "Profile" THEN 0 ELSE k]
    /\ ret' = NotReturned
    /\ UNCHANGED <<params, setup, stored>>

\* a caller asks a Diffusivities for the regression of one orientation
Call_Diffusivities_solve_Ea_D0 ==
    /\ call.fn \in HeapFns
    /\ \E i \in 1..Len(heap.insts), orient \in {"x", "u", "w"} :
          /\ heap.insts[i].cls = "Diffusivities"
          /\ call' = [fn |-> "Diffusivities.solve_Ea_D0", inst |-> i,
                      orient |-> orient]
          /\ ret' = Diffusivities_solve_Ea_D0(heap, heap.insts[i], orient)
    /\ UNCHANGED <<params, setup, stored, heap>>

\* a caller asks a Diffusivities for the diffusivity at a temperature
Call_Diffusivities_whatIsD ==
    /\ call.fn \in HeapFns
    /\ \E i \in 1..Len(heap.insts), orient \in {"ALL", "x"},
          celsius \in {900} :
          /\ heap.insts[i].cls = "Diffusivities"
          /\ call' = [fn |-> "Diffusivities.whatIsD", inst |-> i,
                      orient |-> orient, celsius |-> celsius]
          /\ ret' = Diffusivities_whatIsD(heap, heap.insts[i], celsius,
                                          orient)
    /\ UNCHANGED <<params, setup, stored, heap>>

\* a caller saves a diffusivity on a Profile (a new one with one fitted peak
\* when none is held); the call keeps the arguments as the last save
Call_D_saver ==
    /\ params.kind = "none" /\ call.fn \in {"none"} \cup ProfileFns
    /\ (IF call.fn = "none" THEN 0 ELSE call.saves) < MaxSaves
    /\ \E D \in SavedDs, error \in SavedErrors, sel \in Selectors :
          LET self == IF call.fn = "none" THEN NewProfile ELSE stored
              args == [D |-> D, error |-> error, wholeblock |-> sel.wholeblock,
                       heights_instead |-> sel.heights_instead,
                       peak_idx |-> sel.peak_idx]
          IN  /\ stored' = D_saver(self, D, error, sel.wholeblock,
                                   sel.heights_instead, sel.peak_idx)
              /\ call' = [fn |-> "Profile.D_saver", args |-> args,
                          saver |-> Some(args),
                          saves |-> IF call.fn = "none" THEN 1
                                    ELSE call.saves + 1]
              /\ ret' = [kind |-> "None", printed |-> <<>>]
    /\ UNCHANGED <<params, setup, heap>>

\* a caller asks a Profile for a diffusivity
Call_D_picker ==
    /\ params.kind = "none" /\ call.fn \in {"none"} \cup ProfileFns
    /\ \E sel \in Selectors :
          LET self == IF call.fn = "none" THEN NewProfile ELSE stored
          IN  /\ stored' = self
              /\ call' = [fn |-> "Profile.D_picker", args |-> sel,
                          saver |-> IF call.fn = "none" THEN None
                                    ELSE call.saver,
                          saves |-> IF call.fn = "none" THEN 0
                                    ELSE call.saves]
              /\ ret' = D_picker(self, sel.wholeblock, sel.heights_instead,
                                 sel.peak_idx)
    /\ UNCHANGED <<params, setup, heap>>

\* the caller is done with the result; the ParameterSet and the objects
\* are discarded
Discard ==
    /\ call.fn # "none"
    /\ params' = NoParams /\ call' = NoCall /\ ret' = NotReturned
    /\ setup' = NoSetup /\ stored' = NothingStored /\ heap' = NoInstances

Next ==
    \/ Setup1D \/ Call1D \/ CallThinSlab
    \/ Setup3D \/ Call3Dnpi \/ Call3Dwb
    \/ Minimize_Begin \/ Minimize_Step \/ Minimize_End
    \/ fitDiffusivity_Begin \/ fitDiffusivity_Finish
    \/ fitD_Begin \/ fitD_Finish
    \/ Call_diffusion3Dwb
    \/ Call_solve_Ea_D0 \/ Call_Diffusivities_solve_Ea_D0
    \/ Construct \/ AppendMeasurement
    \/ Call_Diffusivities_whatIsD
    \/ Call_D_saver \/ Call_D_picker
    \/ Discard

Spec == Init /\ [][Next]_vars

\* ------------------------------------------------------------ the claims
\* the messages a sequence of printed lines holds
Printed(r) == {r.printed[i] : i \in 1..Len(r.printed)}

\* ---- whole-block ray paths
\* raypaths is not given, or some raypaths[i] is the profile's own axis or
\* not one of the two other axis letters
InvalidRaypaths(raypaths) ==
    \/ ~raypaths.some
    \/ raypaths.val[1] \notin {"b", "c"}
    \/ raypaths.val[2] \notin {"a", "c"}
    \/ raypaths.val[3] \notin {"a", "b"}

\* C1: whole-block evaluation returns no result and reports an error naming
\* the allowed values whenever raypaths is not given or one of the three ray
\* paths is invalid; it returns profiles or residuals only when all three
\* ray paths are valid.
C1_RaypathsChecked ==
    call.fn = "diffusion3Dwb_params" =>
        /\ InvalidRaypaths(call.raypaths) =>
              /\ ret.kind = "None"
              /\ Printed(ret) \cap {MsgRaypathsNone, MsgRaypath0, MsgRaypath1,
                                    MsgRaypath2} # {}
        /\ ret.kind \in {"wb", "residuals"} => ~InvalidRaypaths(call.raypaths)

\* ---- 1D evaluation: what is returned
\* the 1D model of the current ParameterSet at x = xn / xden microns, by the
\* method of the current call; in 1/(S*V)
ModelAt(xn, xden) ==
    Rescale(UnitProfile(params.microns.value, params.log10D_m2s.value,
                        params.time_seconds.value, xn, xden, call.erf_or_sum,
                        call.infinity),
            params.initial_unit_value.value, params.final_unit_value.value)

\* observed positions and values of equal length n: a residual vector of
\* length n, the i-th entry the model at the i-th position (less the
\* half-width when centering is asked for) minus the i-th value
ReturnsResiduals ==
    (/\ call.data_x.some /\ call.data_y.some
     /\ Len(call.data_x.val) = Len(call.data_y.val)) =>
        /\ ret.kind = "residuals"
        /\ Len(ret.ys) = Len(call.data_x.val)
        /\ \A i \in 1..Len(call.data_x.val) :
              LET shift == IF call.center THEN params.microns.value ELSE 0
              IN  ret.ys[i] = FSub(ModelAt(2 * call.data_x.val[i] - shift, 2),
                                   call.data_y.val[i] * S)

\* no observations: the pair (positions, model) on `points` evenly spaced
\* positions from -L/2 to L/2
ReturnsGridPair ==
    (~call.data_x.some /\ ~call.data_y.some) =>
        /\ ret.kind = "profile"
        /\ Len(ret.xs) = call.points /\ Len(ret.ys) = call.points
        /\ \A j \in 1..call.points :
              /\ ret.xs[j] * 2 * (call.points - 1)
                    = ret.xden * params.microns.value
                        * (2 * (j - 1) - (call.points - 1))
              /\ ret.ys[j] = ModelAt(ret.xs[j], ret.xden)

\* C2 as stated: whenever 1D evaluation is given observed positions and
\* values of equal length it returns the residual vector, and whenever it is
\* given no observations it returns the pair (positions, model) on the grid.
C2_ReturnsResidualsOrGrid ==
    call.fn = "diffusion1D_params" => ReturnsResiduals /\ ReturnsGridPair

\* the call meets none of its early exits: the time is not negative, the
\* method is 'erf' or 'infsum', and the series is not asked of a zero length
Proceeds1D ==
    /\ params.time_seconds.value >= 0
    /\ call.erf_or_sum \in {"erf", "infsum"}
    /\ ~(call.erf_or_sum = "infsum" /\ params.microns.value = 0)

\* C2, amended: with a time that is not negative, the method 'erf' or
\* 'infsum' and, for 'infsum', a length that is not zero, 1D evaluation
\* returns the residual vector (model at the observed position, shifted by
\* the half-width when centering is asked for, minus the observed value) for
\* observations of equal length, and the pair (positions, model) on the grid
\* of `points` points for no observations.
C2_ReturnsResidualsOrGridWhenProceeding ==
    (call.fn = "diffusion1D_params" /\ Proceeds1D) =>
        ReturnsResiduals /\ ReturnsGridPair

\* two centred observations were fitted and the residuals differ
C2_Witness ==
    /\ call.fn = "diffusion1D_params" /\ Proceeds1D
    /\ call.data_x.some /\ call.data_y.some /\ call.center
    /\ ret.kind = "residuals" /\ Len(ret.ys) = 2
    /\ ~IsNaN(ret.ys[1]) /\ ret.ys[1] # ret.ys[2]

\* C3: when 1D evaluation is given observed positions and values of
\* different lengths the call fails, reporting the mismatch: it returns
\* neither a residual vector nor a (positions, model) result.
C3_MismatchedLengthsFail ==
    (/\ call.fn = "diffusion1D_params"
     /\ call.data_x.some /\ call.data_y.some
     /\ Len(call.data_x.val) # Len(call.data_y.val)) =>
        ret.kind \notin {"profile", "residuals"}

\* C4: 1D evaluation with a negative time is rejected whatever the method,
\* the observations and the other parameters: the call reports the invalid
\* input and returns no profile and no residuals.
C4_NegativeTimeRejected ==
    (call.fn = "diffusion1D_params" /\ params.time_seconds.value < 0) =>
        /\ ret.kind = "None"
        /\ ret.printed = <<MsgNegativeTime>>
        /\ ret.xs = <<>> /\ ret.ys = <<>>

\* a negative time met with an unsupported method and observations given
C4_Witness ==
    /\ call.fn = "diffusion1D_params" /\ params.time_seconds.value < 0
    /\ call.erf_or_sum = "sum" /\ call.data_x.some /\ call.data_y.some
    /\ ret.kind = "None"

\* ---- 1D evaluation: direction and range
\* the current 1D call made again with other initial and final values
Again1D(init, fin) ==
    diffusion1D_params(
        [params EXCEPT !.initial_unit_value.value = init,
                       !.final_unit_value.value = fin],
        call.data_x, call.data_y, call.erf_or_sum, call.center,
        call.infinity, call.points)

\* C5: for the same length, diffusivity, time, method and positions, the 1D
\* profile with (initial=1, final=0) and the one with (initial=0, final=1)
\* sum to 1 at every position (stated here of a slab of positive length).
C5_DirectionsSumToOne ==
    (/\ call.fn = "diffusion1D_params" /\ ret.kind = "profile"
     /\ params.microns.value > 0
     /\ params.initial_unit_value.value = V
     /\ params.final_unit_value.value = 0) =>
        LET going_in == Again1D(0, V)
        IN  /\ going_in.kind = "profile"
            /\ \A i \in 1..Len(ret.ys) :
                  FAdd(ret.ys[i], going_in.ys[i]) = S * V

\* C6: when the initial value equals the final value the returned 1D profile
\* is flat and equal to that value at every position (stated here of a slab
\* of positive length).
C6_EqualValuesFlat ==
    (/\ call.fn = "diffusion1D_params" /\ ret.kind = "profile"
     /\ params.microns.value > 0
     /\ params.initial_unit_value.value = params.final_unit_value.value) =>
        \A i \in 1..Len(ret.ys) :
            ret.ys[i] = params.initial_unit_value.value * S

\* ---- the thin-slab curve
\* the output has `timesteps` points, the times evenly spaced over
\* [0, max_time_hours] (np.linspace gives the single time 0 for one step)
ThinSlabTimes ==
    /\ Len(ret.t_num) = call.timesteps /\ Len(ret.cc) = call.timesteps
    /\ ret.t_num[1] = 0
    /\ call.timesteps > 1 =>
          ret.t_num[call.timesteps] = call.max_time_hours * ret.t_den
    /\ \A j \in 1..(call.timesteps - 2) :
          ret.t_num[j + 2] - ret.t_num[j + 1] = ret.t_num[j + 1] - ret.t_num[j]

\* the curve stays in [0, 1]
ThinSlabBounded ==
    \A j \in 1..Len(ret.cc) : ret.cc[j] >= 0 /\ ret.cc[j] <= TableUnit

\* C7 as stated (of a slab of positive thickness): the thin-slab curve is
\* non-decreasing in time and bounded in [0,1], its value at t = 0 is
\* approximately 0 (here: at most a tenth), and the output has exactly
\* `timesteps` points evenly spaced over [0, max_time_hours].
C7_UptakeNonDecreasingFromZero ==
    (call.fn = "diffusionThinSlab" /\ call.thickness_microns > 0) =>
        /\ ThinSlabTimes
        /\ ThinSlabBounded
        /\ \A j \in 1..(Len(ret.cc) - 1) : ret.cc[j] <= ret.cc[j + 1]
        /\ 10 * ret.cc[1] <= TableUnit

\* C7, amended: for every diffusivity and positive thickness the thin-slab
\* curve (C/C0, the fraction that remains) is non-increasing in time and
\* bounded in [0,1]; its value at t = 0 is the partial sum of the
\* coefficients 8/((2n+1)^2 pi^2), between 0.8 and 1, and it has fallen
\* below 0.01 once D t reaches thickness^2; the output has exactly
\* `timesteps` points evenly spaced over [0, max_time_hours].
C7_RemainingFractionNonIncreasingFromOne ==
    (call.fn = "diffusionThinSlab" /\ call.thickness_microns > 0) =>
        /\ ThinSlabTimes
        /\ ThinSlabBounded
        /\ \A j \in 1..(Len(ret.cc) - 1) : ret.cc[j] >= ret.cc[j + 1]
        /\ 10 * ret.cc[1] >= 8 * TableUnit
        /\ \A j \in 1..Len(ret.cc) :
              (Pow10(call.log10D_m2s + 15) * 3600 * ret.t_num[j]
                 >= 1000 * call.thickness_microns * call.thickness_microns
                      * ret.t_den)
              => 100 * ret.cc[j] <= TableUnit

\* a curve of three steps and two terms that falls strictly, to below 0.01
C7_Witness ==
    /\ call.fn = "diffusionThinSlab" /\ call.thickness_microns > 0
    /\ call.timesteps = 3 /\ call.infinity = 2
    /\ ret.cc[1] > ret.cc[2] /\ ret.cc[2] > ret.cc[3]
    /\ 100 * ret.cc[3] <= TableUnit

\* ---- the 3D model without path integration
\* the three axes have one length and one (effective) diffusivity
EqualAxes ==
    /\ params.microns3.value[1] = params.microns3.value[2]
    /\ params.microns3.value[2] = params.microns3.value[3]
    /\ ValueOf(params, "log10Dx") = ValueOf(params, "log10Dy")
    /\ ValueOf(params, "log10Dy") = ValueOf(params, "log10Dz")

\* C8: for equal diffusivities and equal lengths on all three axes the three
\* centerline slice profiles of the 3D model without path integration are
\* identical to each other, point for point (two nan count as identical).
C8_SlicesIdentical ==
    (call.fn = "diffusion3Dnpi_params" /\ ret.kind = "npi" /\ EqualAxes) =>
        /\ ret.sliceprofiles[1] = ret.sliceprofiles[2]
        /\ ret.sliceprofiles[2] = ret.sliceprofiles[3]

\* slices of three points with equal axes that hold numbers and are not flat
C8_Witness ==
    /\ call.fn = "diffusion3Dnpi_params" /\ ret.kind = "npi" /\ EqualAxes
    /\ call.points = 3
    /\ \A i \in 1..3 : ~IsNaN(ret.sliceprofiles[3][i])
    /\ ret.sliceprofiles[3][1] # ret.sliceprofiles[3][2]
    /\ ret.sliceprofiles[1] = ret.sliceprofiles[3]

\* the standalone 1D profile (method 'erf', no observations) for the length
\* and diffusivity of the first axis, the time and the number of points of
\* the current 3D call, and the given initial and final values
Standalone1D(init, fin) ==
    diffusion1D_params(
        params_setup1D(params.microns3.value[1], ValueOf(params, "log10Dx"),
                       params.time_seconds.value, init, fin,
                       TRUE, FALSE, FALSE),
        None, None, "erf", TRUE, 100, call.points)

\* C9 as stated: for equal diffusivities and equal lengths on all three axes
\* each centerline slice profile of the 3D model is identical, point for
\* point, to the standalone 1D profile for the same diffusivity, length,
\* time, initial and final values and number of points.
C9_SlicesAreThe1DProfile ==
    (call.fn = "diffusion3Dnpi_params" /\ ret.kind = "npi" /\ EqualAxes) =>
        LET one == Standalone1D(params.initial_unit_value.value,
                                params.final_unit_value.value)
        IN  /\ one.kind = "profile"
            /\ \A k \in 1..3 : \A i \in 1..call.points :
                  ret.sliceprofiles[k][i]
                     = FMul(one.ys[i], FieldUnit \div (S * V))

\* C9, amended: for equal diffusivities and equal lengths on all three axes
\* each centerline slice is the standalone 1D profile multiplied by the
\* square of its own middle value.  With capped = min(initial, 1),
\* scale = max(initial, 1), mid = int(points / 2) and y the standalone 1D
\* 'erf' profile for the same diffusivity, length, time and number of points
\* that falls from the larger to the smaller of capped and final:
\* slice[i] = scale y[i] y[mid]^2 when capped >= final, and
\* slice[i] = 1 - scale y[i] y[mid]^2 + capped when capped < final.
C9_SlicesAre1DTimesMiddleSquared ==
    (call.fn = "diffusion3Dnpi_params" /\ ret.kind = "npi" /\ EqualAxes) =>
        LET initial == params.initial_unit_value.value
            final   == params.final_unit_value.value
            capped  == IF initial > V THEN V ELSE initial
            scale   == IF initial > V THEN initial ELSE V
            larger  == IF capped >= final THEN capped ELSE final
            smaller == IF capped >= final THEN final ELSE capped
            one     == Standalone1D(larger, smaller)
            mid     == (call.points \div 2) + 1
            prod(i) == FMul(FMul(FMul(one.ys[i], one.ys[mid]), one.ys[mid]),
                            scale)
        IN  /\ one.kind = "profile"
            /\ \A k \in 1..3 : \A i \in 1..call.points :
                  ret.sliceprofiles[k][i]
                     = IF capped >= final THEN prod(i)
                       ELSE FAdd(FSub(FieldUnit, prod(i)),
                                 capped * (FieldUnit \div V))

\* equal axes, an initial value above 1, and a slice that holds numbers and
\* differs from the standalone 1D profile
C9_Witness ==
    /\ call.fn = "diffusion3Dnpi_params" /\ ret.kind = "npi" /\ EqualAxes
    /\ params.initial_unit_value.value > V
    /\ call.points = 3
    /\ \A i \in 1..3 : ~IsNaN(ret.sliceprofiles[1][i])
    /\ ret.sliceprofiles[1][2]
          # FMul(Standalone1D(params.initial_unit_value.value,
                              params.final_unit_value.value).ys[2],
                 FieldUnit \div (S * V))

\* ---- whole-block fitting
\* the whole-block profiles and positions of the current call's ParameterSet
\* and ray paths, as the model returns them when no observations are given
WbModel ==
    diffusion3Dwb_params(params, None, None, call.raypaths, "erf", call.points)

\* the number of observed points of the directions before direction k
ObservedBefore(k) ==
    IF k = 1 THEN 0
    ELSE IF k = 2 THEN Len(call.data_x.val[1])
    ELSE Len(call.data_x.val[1]) + Len(call.data_x.val[2])

\* C10: in whole-block fitting mode, for every observed point of every
\* direction the residual is the whole-block model value at the grid index
\* whose position is nearest to the observed position, minus the observed
\* value; the flat vector returned holds the residuals of direction a, then
\* b, then c, each in observation order, and its length is the total number
\* of observed points.
C10_WbResidualsNearestMinusObserved ==
    (call.fn = "diffusion3Dwb_params" /\ ret.kind = "residuals") =>
        LET wb == WbModel
        IN  /\ wb.kind = "wb"
            /\ Len(ret.ys) = ObservedBefore(3) + Len(call.data_x.val[3])
            /\ \A k \in 1..3 : \A pos \in 1..Len(call.data_x.val[k]) :
                  \E idx \in 1..call.points :
                     /\ \A j \in 1..call.points :
                           Abs(wb.wb_positions[k][idx]
                                 - call.data_x.val[k][pos] * wb.xden)
                           <= Abs(wb.wb_positions[k][j]
                                    - call.data_x.val[k][pos] * wb.xden)
                     /\ ret.ys[ObservedBefore(k) + pos]
                           = FSub(wb.wb_profiles[k][idx],
                                  call.data_y.val[k][pos] * call.points
                                     * (FieldUnit \div V))

\* a ragged set of three observations on a grid of three points was fitted:
\* the second residual of direction a and the residual of direction c are
\* numbers
C10_Witness ==
    /\ call.fn = "diffusion3Dwb_params" /\ ret.kind = "residuals"
    /\ call.points = 3 /\ Len(ret.ys) = 3
    /\ Len(call.data_x.val[1]) = 2 /\ Len(call.data_x.val[2]) = 0
    /\ ~IsNaN(ret.ys[2]) /\ ~IsNaN(ret.ys[3])
    /\ ret.ys[2] # ret.ys[3]

\* ---- whole-block profiles against centerline slices
\* index i is a local extremum of a profile: an inner index whose value is
\* above both neighbours or below both (no comparison with nan is true)
LocalExtremum(profile, i) ==
    /\ 1 < i /\ i < Len(profile)
    /\ ~IsNaN(profile[i - 1]) /\ ~IsNaN(profile[i]) /\ ~IsNaN(profile[i + 1])
    /\ \/ profile[i] > profile[i - 1] /\ profile[i] > profile[i + 1]
       \/ profile[i] < profile[i - 1] /\ profile[i] < profile[i + 1]

\* the 3D model without path integration for the ParameterSet and the number
\* of points of the current call
NpiModel ==
    diffusion3Dnpi_params(params, None, None, "erf", TRUE, 100, call.points)

\* C11: for the same parameters every index that is a local extremum of the
\* whole-block profile along a direction is also a local extremum of the
\* centerline slice of the 3D model without path integration along that
\* direction.
C11_WbNoAdditionalExtrema ==
    (call.fn = "diffusion3Dwb_params" /\ ret.kind = "wb") =>
        LET npi == NpiModel
        IN  /\ npi.kind = "npi"
            /\ \A k \in 1..3 : \A i \in 1..call.points :
                  LocalExtremum(ret.wb_profiles[k], i)
                     => LocalExtremum(npi.sliceprofiles[k], i)

\* a whole-block profile of three points whose middle is a local extremum
\* along a direction, next to a direction where it has none
C11_Witness ==
    /\ call.fn = "diffusion3Dwb_params" /\ ret.kind = "wb"
    /\ call.points = 3
    /\ LocalExtremum(ret.wb_profiles[1], 2)
    /\ LocalExtremum(NpiModel.sliceprofiles[1], 2)
    /\ ~LocalExtremum(ret.wb_profiles[3], 2)

\* ---- the linkage of the three diffusivities
\* the linkage expressions of (log10Dx, log10Dy, log10Dz)
Exprs == <<params.log10Dx.expr, params.log10Dy.expr, params.log10Dz.expr>>

\* the vary flags of (log10Dx, log10Dy, log10Dz)
Varies == <<params.log10Dx.vary, params.log10Dy.vary, params.log10Dz.vary>>

\* C12: params_setup3D links the diffusivities by mode: with isotropic set
\* log10Dy and log10Dz both carry the expression log10Dx; with slowb set (and
\* isotropic not, the isotropic branch being tested first) log10Dy carries
\* log10Dx - 1. and log10Dz carries log10Dx; with neither set no diffusivity
\* carries an expression and each has the vary flag the caller gave it.
\* log10Dx never carries an expression, and no returned set mixes the two
\* linkages: the three expressions are one of exactly these three patterns.
C12_LinkageByMode ==
    setup.fn = "params_setup3D" =>
        /\ setup.isotropic => Exprs = <<NoExpr, "log10Dx", "log10Dx">>
        /\ (setup.slowb /\ ~setup.isotropic) =>
              Exprs = <<NoExpr, "log10Dx - 1.", "log10Dx">>
        /\ (~setup.isotropic /\ ~setup.slowb) =>
              Exprs = <<NoExpr, NoExpr, NoExpr>> /\ Varies = setup.vD
        /\ Exprs \in {<<NoExpr, "log10Dx", "log10Dx">>,
                      <<NoExpr, "log10Dx - 1.", "log10Dx">>,
                      <<NoExpr, NoExpr, NoExpr>>}

\* both flags were passed with a mixed vD, and the set is the isotropic one
C12_Witness ==
    /\ setup.fn = "params_setup3D"
    /\ setup.isotropic /\ setup.slowb /\ setup.vD = <<TRUE, FALSE, TRUE>>
    /\ Exprs = <<NoExpr, "log10Dx", "log10Dx">>

\* ---- linked diffusivities under the optimizer
\* the value the linkage the caller asked for derives from log10Dx
DerivedDy ==
    IF setup.isotropic THEN params.log10Dx.value ELSE params.log10Dx.value - 1

\* the current ParameterSet with the derived values written out as plain
\* fixed parameters
ExplicitParams ==
    [params EXCEPT !.log10Dy = Par(DerivedDy, FALSE, NoExpr),
                   !.log10Dz = Par(params.log10Dx.value, FALSE, NoExpr)]

\* a function evaluation of the caller's minimization has just been made on
\* a linked ParameterSet
LinkedEvaluation ==
    /\ call.fn = "lmfit.minimize" /\ call.stage \in {"minimize", "raised"}
    /\ call.nfev >= 1
    /\ setup.isotropic \/ setup.slowb

FitReturned ==
    /\ call.fn \in {"Profile.fitDiffusivity", "WholeBlock.fitD"}
    /\ call.stage = "returned" /\ ret.kind # "None"

\* C14: Profile.fitDiffusivity and WholeBlock.fitD store a best-fit
\* diffusivity on a profile and return it as a result only when the optimizer
\* succeeded and a standard error exists; a fit that did not converge or has
\* no standard error is reported as a failure.
C14_StoredOnlyOnSuccess ==
    FitReturned =>
        ((stored # NothingStored \/ ret.kind \in {"best_D", "bestD"}) =>
            (call.success /\ call.errorbars))

\* ---- the Arrhenius regression
\* the two lists Diffusivities.solve_Ea_D0 of the current call reads
MethodLists ==
    LET inst == heap.insts[call.inst]
        k == IF call.orient = "x" THEN 1 ELSE 4
    IN  <<heap.lists[inst.logD[k]], heap.lists[inst.celsius[k]]>>

\* C15: solve_Ea_D0 given fewer than 2 (temperature, diffusivity) points
\* prints a warning and returns no result (None for the activation energy
\* and for the pre-exponential factor) without raising; given 2 or more
\* points it returns both. The method Diffusivities.solve_Ea_D0 does the same
\* for the lists of the orientation asked for.
C15_FewerThanTwoPoints ==
    /\ call.fn = "solve_Ea_D0" =>
          LET n == Len(call.log10D_list)
              m == Len(call.celsius_list)
          IN  /\ (n < 2 \/ m < 2) =>
                    ret.kind = "None, None" /\ MsgOnePoint \in Printed(ret)
              /\ (n >= 2 /\ m = n) => ret.kind = "Ea, D0"
    /\ (call.fn = "Diffusivities.solve_Ea_D0" /\ call.orient \in {"x", "u"}) =>
          LET n == Len(MethodLists[1])
              m == Len(MethodLists[2])
          IN  /\ (n < 2 \/ m < 2) =>
                    ret.kind = "None" /\ MsgOnlyOnePoint \in Printed(ret)
              /\ (n >= 2 /\ m = n) => ret.kind = "Ea, D0"

\* the regression was asked for a single point and returned no result
C15_Witness ==
    /\ call.fn = "solve_Ea_D0"
    /\ Len(call.log10D_list) = 1 /\ Len(call.celsius_list) = 1
    /\ ret.kind = "None, None" /\ ret.printed = <<MsgOnePoint>>

\* ---- containers of instances
\* the contents of the lists the instance j holds in the heap h
Held(h, j) ==
    LET inst == h.insts[j]
    IN  IF inst.cls = "Profile" THEN <<h.lists[inst.fname_list]>>
        ELSE [k \in 1..8 |-> h.lists[(inst.celsius \o inst.logD)[k]]]

\* the instance i holds four different list objects for x, y, z, u
DistinctOrientations(h, j) ==
    LET inst == h.insts[j]
    IN  inst.cls = "Diffusivities" =>
            /\ Cardinality({inst.celsius[k] : k \in 1..4}) = 4
            /\ Cardinality({inst.logD[k] : k \in 1..4}) = 4

\* C20: instances never share default container state: an append to a list
\* held by a Diffusivities or Profile instance that was created with default
\* arguments leaves the lists of every other instance as they were, and
\* within every instance the lists of x, y, z and u are four distinct
\* containers.
C20_NoSharedContainers ==
    [][/\ (call'.fn = "list.append" /\ heap.insts[call'.inst].defaults) =>
             \A j \in 1..Len(heap.insts) :
                 j # call'.inst => Held(heap', j) = Held(heap, j)
       /\ \A j \in 1..Len(heap'.insts) : DistinctOrientations(heap', j)]_vars

\* ---- the whole-block wrapper
\* what diffusion3Dwb_params gives for the wrapper's inputs
WrapperModel ==
    diffusion3Dwb_params(
        params_setup3D(call.lengths_microns, call.log10Ds_m2s,
                       call.time_seconds, V, 0, FALSE, FALSE,
                       <<TRUE, TRUE, TRUE>>, FALSE, FALSE),
        None, None, Some(call.raypaths), "erf", call.points)

\* C19: diffusion3Dwb(lengths, log10Ds, time, raypaths) computes the
\* path-averaged whole-block profiles for its inputs and returns their
\* positions and values (x, y), preceded by the figure and axes when it makes
\* a new plot.
C19_WrapperReturnsProfiles ==
    (call.fn = "diffusion3Dwb" /\ WrapperModel.kind = "wb") =>
        /\ ret.kind = IF call.show_plot THEN "f, ax, x, y" ELSE "x, y"
        /\ ret.x = WrapperModel.wb_positions
        /\ ret.y = WrapperModel.wb_profiles

\* ---- degenerate slabs
\* C17: a zero-length slab, like negative time, produces a reported
\* condition and no profile in the 1D model: the evaluation returns neither
\* a profile nor residuals when the length is 0.
C17_ZeroLengthGuarded ==
    (call.fn = "diffusion1D_params" /\ params.microns.value = 0) =>
        ret.kind \notin {"profile", "residuals"}

\* ---- the ParameterSet across an evaluation
\* the next step is a model evaluation by a caller
Evaluates ==
    /\ call.fn = "none"
    /\ call'.fn \in {"diffusion1D_params", "diffusion3Dnpi_params",
                      "diffusion3Dwb_params"}

AxisProfile(k, i, hi, lo) ==
    FAdd(FMul(ErfProfile(params.microns3.value[k],
                         <<ValueOf(params, "log10Dx"), ValueOf(params, "log10Dy"),
                           ValueOf(params, "log10Dz")>>[k],
                         params.time_seconds.value,
                         GridX(params.microns3.value[k], call.points, i - 1),
                         2 * (call.points - 1)),
              hi - lo),
         lo * S)

\* C21: the 3D field is field[i,j,k] = y_x[i] * y_y[j] * y_z[k] * scale of
\* the three 1D profiles.  When going in (initial, capped at 1, below final)
\* initial and final are swapped before the three 1D evaluations, so each
\* y falls from final to initial and none is inverted, and the inversion is
\* applied once after the product: field = 1 - scale * product + floor
\* value, the floor value being the capped initial value.
C21_FieldIsScaledProduct ==
    (call.fn = "diffusion3Dnpi_params" /\ ret.kind = "npi") =>
        LET initial == params.initial_unit_value.value
            final   == params.final_unit_value.value
            capped  == IF initial > V THEN V ELSE initial
            scale   == IF initial > V THEN initial ELSE V
            going_in == capped < final
            hi      == IF going_in THEN final ELSE capped
            lo      == IF going_in THEN capped ELSE final
            product(i, j, k) ==
                FMul(FMul(FMul(AxisProfile(1, i, hi, lo),
                               AxisProfile(2, j, hi, lo)),
                          AxisProfile(3, k, hi, lo)), scale)
        IN  \A i \in 1..call.points, j \in 1..call.points,
               k \in 1..call.points :
                ret.v[i][j][k] =
                    IF going_in
                    THEN FAdd(FSub(FieldUnit, product(i, j, k)),
                              capped * (FieldUnit \div V))
                    ELSE product(i, j, k)

\* a going-in field of a block with unequal diffusivities whose middle value
\* is a number and differs from its corner value
C21_Witness ==
    /\ call.fn = "diffusion3Dnpi_params" /\ ret.kind = "npi"
    /\ params.initial_unit_value.value < params.final_unit_value.value
    /\ params.initial_unit_value.value > 0
    /\ params.time_seconds.value > 0 /\ call.points = 3
    /\ ValueOf(params, "log10Dy") # ValueOf(params, "log10Dx")
    /\ ~IsNaN(ret.v[2][2][2]) /\ ~IsNaN(ret.v[1][1][1])
    /\ ret.v[2][2][2] # ret.v[1][1][1]

\* ---- the direction of the 3D model
\* C22: the 3D model determines the direction exactly as the 1D model does,
\* from the initial/final pair of the caller: it treats the case as going out
\* if and only if initial_value > final_value, also when initial_value > 1
\* and when initial_value equals final_value.
C22_DirectionAsIn1D ==
    (call.fn = "diffusion3Dnpi_params" /\ ret.kind = "npi") =>
        (GoingOut3D(params.initial_unit_value.value,
                    params.final_unit_value.value)
            <=> params.initial_unit_value.value > params.final_unit_value.value)

\* ---- the whole-block profiles as path averages
\* the sum of the 3D field v over the index along axis r (1, 2 or 3), the
\* index along axis d being n and the index along the third axis being m
PathSum(v, d, r, n, m) ==
    FSum([q \in 1..Len(v) |->
            LET at(axis) == IF axis = r THEN q ELSE IF axis = d THEN n ELSE m
            IN  v[at(1)][at(2)][at(3)]])

\* the axis (1, 2 or 3) of a direction letter
AxisOf(letter) == IF letter = "a" THEN 1 ELSE IF letter = "b" THEN 2 ELSE 3

\* C23: for each profile direction d and each valid ray path r (r different
\* from d) the whole-block profile value at index n is the mean of the 3D
\* field over the index along axis r, taken with the index along d equal to n
\* and the index along the remaining third axis equal to the middle index
\* (the model holds the mean times points); all six (d, r) combinations are
\* covered.
C23_WbIsPathAverage ==
    (call.fn = "diffusion3Dwb_params" /\ ret.kind = "wb") =>
        LET npi == NpiModel
        IN  /\ npi.kind = "npi"
            /\ \A d \in 1..3 : \A n \in 1..call.points :
                  /\ AxisOf(call.raypaths.val[d]) # d
                  /\ ret.wb_profiles[d][n]
                       = PathSum(npi.v, d, AxisOf(call.raypaths.val[d]), n,
                                 Mid(call.points))

\* a whole-block call of three points whose profile along a, averaged along
\* b, differs from the values the transposed selection would give
C23_Witness ==
    /\ call.fn = "diffusion3Dwb_params" /\ ret.kind = "wb"
    /\ call.points = 3
    /\ call.raypaths.val = <<"b", "a", "a">>
    /\ \A n \in 1..3 : ret.wb_profiles[1][n] # NaN
    /\ ret.wb_profiles[1] # MeanAxis1(NpiModel.v, 3)[Mid(3)]

\* ---- the method keyword of the 1D evaluation
\* the keywords the message of lines 186-189 names as the valid ones
NamedValid == {"erf", "sum"}

\* C24: a 1D evaluation called with a method keyword other than the two
\* supported ones reports the expected values and stops without partial
\* results, returning no profile and no residuals, and a keyword that the
\* message itself names as valid is accepted.
C24_UnsupportedMethodReported ==
    (call.fn = "diffusion1D_params" /\ ret.kind # "pending"
       /\ params.time_seconds.value >= 0) =>
        /\ call.erf_or_sum \notin {"erf", "infsum"} =>
              /\ ret.kind = "False"
              /\ Len(ret.printed) > 0
              /\ ret.printed[Len(ret.printed)] = MsgErfOrSum
              /\ ret.xs = <<>> /\ ret.ys = <<>>
        /\ call.erf_or_sum \in NamedValid =>
              /\ ret.kind # "False"
              /\ \A i \in 1..Len(ret.printed) : ret.printed[i] # MsgErfOrSum

\* ---- rejected input in the 3D and whole-block models
\* C25: when a constituent 1D evaluation rejects its input, the 3D model
\* without path integration and the whole-block model report the condition
\* to their caller as a failure result and raise no unhandled exception.
C25_RejectionIsNotAnException ==
    (call.fn \in {"diffusion3Dnpi_params", "diffusion3Dwb_params"}
       /\ ret.kind # "pending" /\ params.time_seconds.value < 0) =>
        /\ ret.kind \in {"None", "False"}
        /\ MsgNegativeTime \in Printed(ret)

\* ---- the coordinate frame of WholeBlock.fitD
\* the whole-block residuals of the current ParameterSet for observations at
\* the positions x (microns, measured as the model's grid is, from 0 to the
\* length), with the observed values and ray paths of the current fit
FitResiduals(x) ==
    diffusion3Dwb_params(params, Some(x), Some(call.data_y),
                         Some(call.raypaths), "erf", call.points)

\* C26: in WholeBlock.fitD the observed positions passed to the whole-block
\* residual function are in the frame of the model's position grid, which
\* runs from 0 to the length: an observation at the physical position p,
\* 0 <= p <= length, is compared with the model value at the grid point
\* nearest to p, so the residuals are those of the positions as measured.
C26_FitPositionsInGridFrame ==
    (call.fn = "WholeBlock.fitD" /\ "positions" \in DOMAIN call) =>
        /\ \A k \in 1..3 : \A i \in 1..Len(call.positions[k]) :
              LET grid == [j \in 1..call.points |->
                             params.microns3.value[k] * (j - 1)]
              IN  ArgminAbs(grid, call.points - 1, call.data_x[k][i])
                    = ArgminAbs(grid, call.points - 1, call.positions[k][i])
        /\ FitResiduals(call.data_x) = FitResiduals(call.positions)

\* ---- the range of the concentrations
\* C27: in the 1D model, for every position inside the slab and for both
\* methods, the returned concentration lies between min(initial_value,
\* final_value) and max(initial_value, final_value), for every non-negative
\* time and every diffusivity (stated here of a slab of positive length).
C27_ProfileWithinRange ==
    (call.fn = "diffusion1D_params" /\ ret.kind = "profile"
       /\ params.microns.value > 0 /\ params.time_seconds.value >= 0) =>
        LET initial == params.initial_unit_value.value
            final   == params.final_unit_value.value
            lo      == IF initial < final THEN initial ELSE final
            hi      == IF initial < final THEN final ELSE initial
        IN  \A i \in 1..Len(ret.ys) :
               /\ ret.ys[i] # NaN
               /\ lo * S <= ret.ys[i] /\ ret.ys[i] <= hi * S

\* the three unit 1D profiles under the 3D field of the current call all lie
\* in [0, 1]
UnitProfilesInRange ==
    \A k \in 1..3 : \A i \in 1..call.points :
        LET m == AxisProfile(k, i, 1, 0)
        IN  m # NaN /\ 0 <= m /\ m <= S

\* C28: every value of the 3D field returned by diffusion3Dnpi_params lies
\* between min(initial_value, final_value) and max(initial_value,
\* final_value) whenever each of the three underlying unit 1D profiles lies
\* in [0, 1], for every choice of the initial and final values.
C28_FieldWithinRange ==
    (call.fn = "diffusion3Dnpi_params" /\ ret.kind = "npi"
       /\ UnitProfilesInRange) =>
        LET initial == params.initial_unit_value.value
            final   == params.final_unit_value.value
            lo      == IF initial < final THEN initial ELSE final
            hi      == IF initial < final THEN final ELSE initial
        IN  \A i, j, k \in 1..call.points :
               /\ ret.v[i][j][k] # NaN
               /\ lo * (FieldUnit \div V) <= ret.v[i][j][k]
               /\ ret.v[i][j][k] <= hi * (FieldUnit \div V)

\* ---- the diffusivity D_picker returns
\* C29: Profile.D_picker returns only a diffusivity of the kind requested:
\* after any sequence of D_saver calls, D_picker(wholeblock=False,
\* peak_idx=None) returns the stored bulk value D_area or reports that none
\* is set, and never the whole-block value D_area_wb; and D_picker with the
\* selectors of the last D_saver call, when that call saved a nonzero D,
\* returns that D.
C29_PickerReturnsRequestedKind ==
    call.fn = "Profile.D_picker" =>
        /\ (~call.args.wholeblock /\ ~call.args.peak_idx.some) =>
              IF stored.D_area # 0
              THEN ret.kind = "log10D_m2s" /\ ret.value = stored.D_area
              ELSE ret.kind = "None" /\ ret.printed = <<MsgNeedD>>
        /\ (/\ call.saver.some /\ call.saver.val.D # 0
            /\ call.saver.val.wholeblock = call.args.wholeblock
            /\ call.saver.val.heights_instead = call.args.heights_instead
            /\ call.saver.val.peak_idx = call.args.peak_idx) =>
              ret.kind = "log10D_m2s" /\ ret.value = call.saver.val.D

\* ---- the diffusivities of all orientations
\* C30: Diffusivities.whatIsD(celsius, orient='ALL') returns a list of
\* exactly four entries in the order x, y, z, unoriented, where entry k is
\* the interpolated log10 diffusivity of orientation k, or None when that
\* orientation has too few points for a regression (none or one).
C30_AllGivesFourEntries ==
    (call.fn = "Diffusivities.whatIsD" /\ call.orient = "ALL"
       /\ ret.kind # "TypeError") =>
        /\ ret.kind = "D"
        /\ Len(ret.D) = 4
        /\ \A k \in 1..4 :
              LET inst    == heap.insts[call.inst]
                  logD    == heap.lists[inst.logD[k]]
                  celsius == heap.lists[inst.celsius[k]]
                  fit     == EaD0(LineFit([i \in 1..Len(celsius) |->
                                             InvT(celsius[i])], logD))
              IN  ret.D[k] = IF Len(logD) < 2 THEN None
                             ELSE Some(whatIsD(fit.Ea, fit.log10D0,
                                               call.celsius))


====
